---- MODULE Spec2Model ----
(***************************************************************************)
(* A model of sasa: the mixer that runs in the audio callback, the music   *)
(* and sfx renderers with their handles and bounded SPSC queues, and the   *)
(* AudioManager that feeds AddRenderer commands to the mixer.              *)
(*                                                                         *)
(* f32/f64 values are modelled as exact rationals <<n, d>> (d > 0, lowest  *)
(* terms).  The clip sampler rounds each of its operations to f32 (F32);   *)
(* elsewhere the values that occur are floats and the operations exact.    *)
(***************************************************************************)
EXTENDS Integers, Sequences, FiniteSets, TLC

(***************************************************************************)
(* Rational arithmetic standing for f32 / f64.                             *)
(***************************************************************************)
Abs(x) == IF x < 0 THEN -x ELSE x

RECURSIVE GCD(_, _)
GCD(a, b) == IF b = 0 THEN a ELSE GCD(b, a % b)

Norm(n, d) ==
    LET g == GCD(Abs(n), Abs(d))
        s == IF d < 0 THEN -1 ELSE 1
    IN  <<(s * n) \div g, (s * d) \div g>>

Q(n, d) == Norm(n, d)
Zero == <<0, 1>>
One == <<1, 1>>
Half == <<1, 2>>
FromInt(i) == <<i, 1>>

RAdd(a, b) == Norm(a[1] * b[2] + b[1] * a[2], a[2] * b[2])
RSub(a, b) == Norm(a[1] * b[2] - b[1] * a[2], a[2] * b[2])
RMul(a, b) == Norm(a[1] * b[1], a[2] * b[2])
RDiv(a, b) == Norm(a[1] * b[2], a[2] * b[1])
RNeg(a) == <<-a[1], a[2]>>
RLt(a, b) == a[1] * b[2] < b[1] * a[2]
RLe(a, b) == a[1] * b[2] <= b[1] * a[2]

\* f32::round: to the nearest integer, halves away from zero.
Round(a) ==
    IF a[1] >= 0 THEN (2 * a[1] + a[2]) \div (2 * a[2])
    ELSE -((2 * (-a[1]) + a[2]) \div (2 * a[2]))

\* `x as usize`: truncation, saturating at 0 for negative values.
AsUsize(a) == IF a[1] < 0 THEN 0 ELSE a[1] \div a[2]

\* `x.round() as usize`
RoundAsUsize(a) == IF Round(a) < 0 THEN 0 ELSE Round(a)

\* f32 has a significand of 24 bits: the floats are the m / 2^k and m * 2^k with
\* |m| < 2^24 (the exponent's range is not reached by the values used here).
RECURSIVE IsPow2(_)
IsPow2(d) == d = 1 \/ (d % 2 = 0 /\ IsPow2(d \div 2))
\* floor(log2(n / d)) for n, d > 0
RECURSIVE Log2(_, _)
Log2(n, d) ==
    IF n >= 2 * d THEN Log2(n, 2 * d) + 1
    ELSE IF n < d THEN Log2(2 * n, d) - 1
    ELSE 0
\* The nearest integer to n / d >= 0, ties to even.
RoundEven(n, d) ==
    IF 2 * (n % d) > d \/ (2 * (n % d) = d /\ (n \div d) % 2 = 1)
    THEN n \div d + 1 ELSE n \div d

\* s * n / d (n, d > 0, 2^e <= n / d < 2^(e+1)) to the nearest multiple of
\* 2^(e-23); p = 2^(23-e) and g = GCD(d, p) when e <= 23.
F32_scaled(s, n, d, p, g) ==
    Norm(s * RoundEven(n * (p \div g), d \div g), p)
F32_near(s, n, d, e) ==
    IF e <= 23 THEN F32_scaled(s, n, d, 2 ^ (23 - e), GCD(d, 2 ^ (23 - e)))
    ELSE <<s * RoundEven(n, d * 2 ^ (e - 23)) * 2 ^ (e - 23), 1>>

\* The f32 nearest the rational a (24-bit significand, ties to even); a value
\* n / 2^k with |n| < 2^24 is a float already.
F32(a) ==
    IF a[1] = 0 \/ (IsPow2(a[2]) /\ a[1] < 16777216 /\ -a[1] < 16777216)
    THEN a
    ELSE IF a[1] > 0 THEN F32_near(1, a[1], a[2], Log2(a[1], a[2]))
    ELSE F32_near(-1, -a[1], a[2], Log2(-a[1], a[2]))

(***************************************************************************)
(* Frame (lib.rs): a pair of floats.                                       *)
(***************************************************************************)
Frame(l, r) == <<l, r>>
FrameDefault == Frame(Zero, Zero)
Frame_avg(f) == RDiv(RAdd(f[1], f[2]), FromInt(2))
\* `self.0 + (other.0 - self.0) * f`, each of the three operations rounded
Lerp(a, b, t) == F32(RAdd(a, F32(RMul(F32(RSub(b, a)), t))))
Frame_interpolate(f, other, t) == [ch \in 1..2 |-> Lerp(f[ch], other[ch], t)]
Frame_add(f, g) == Frame(RAdd(f[1], g[1]), RAdd(f[2], g[2]))
Frame_mul(f, k) == Frame(RMul(f[1], k), RMul(f[2], k))

(***************************************************************************)
(* AudioClip (clip.rs): frames and the rate they were authored at.         *)
(***************************************************************************)
None == [ok |-> FALSE, frame |-> FrameDefault]
Some(f) == [ok |-> TRUE, frame |-> f]

\* A variant for comparison: the quotient of the reals.
AudioClip_length_exact(c) == Q(Len(c.frames), c.sample_rate)

\* `self.frame_count() as f32 / self.sample_rate() as f32`
AudioClip_length(c) == F32(Q(Len(c.frames), c.sample_rate))

\* A faulty variant, for comparison: the frame at the index, not interpolated.
AudioClip_sample_nearest(c, position) ==
    LET At(actual_index) ==
            IF actual_index + 1 <= Len(c.frames)
            THEN Some(c.frames[actual_index + 1])
            ELSE None
    IN  At(AsUsize(F32(RMul(position, FromInt(c.sample_rate)))))

\* sample() from `let actual_index = position as usize` on.
AudioClip_sample_at(c, pos, actual_index) ==
    IF actual_index + 1 <= Len(c.frames)
    THEN Some(Frame_interpolate(
                c.frames[actual_index + 1],
                IF actual_index + 2 <= Len(c.frames)
                THEN c.frames[actual_index + 2]
                ELSE c.frames[actual_index + 1],
                F32(RSub(pos, F32(FromInt(actual_index))))))
    ELSE None
AudioClip_sample_scaled(c, pos) == AudioClip_sample_at(c, pos, AsUsize(pos))

AudioClip_sample(c, position) ==
    AudioClip_sample_scaled(c,
        F32(RMul(position, F32(FromInt(c.sample_rate)))))

(***************************************************************************)
(* MusicRenderer (renderer/music.rs).  A renderer value m carries the      *)
(* renderer's own fields, its end of the command queue (cons), the shared  *)
(* state it reaches through its weak reference (state, readable while      *)
(* strong > 0) and the list of commands it has applied so far (applied, a  *)
(* history of what prepare did).                                           *)
(***************************************************************************)
Cmd(op, v) == [op |-> op, v |-> v]

\* `if let Some(state) = self.state.upgrade() { state.paused.store(v) }`
Store_paused(m, v) ==
    IF m.strong > 0 THEN [m EXCEPT !.state.paused = v] ELSE m

\* `if let Some(state) = self.state.upgrade() { state.position.store(p) }`
Store_position(m, p) ==
    IF m.strong > 0 THEN [m EXCEPT !.state.position = p] ELSE m

\* The arms of the `match cmd` in prepare.
\* A faulty variant, for comparison: Pause toggles the flag.
Cmd_pause_toggle(m) == Store_paused([m EXCEPT !.paused = ~m.paused], ~m.paused)

Cmd_pause(m) == Store_paused([m EXCEPT !.paused = TRUE], TRUE)

Cmd_resume(m) == Store_paused([m EXCEPT !.paused = FALSE], FALSE)

Cmd_set_amplifier(m, amp) == [m EXCEPT !.amplifier = amp]

\* A faulty variant, for comparison: the index is truncated, not rounded.
Cmd_seek_to_trunc(m, position, sample_rate) ==
    [m EXCEPT !.index =
        AsUsize(RDiv(RMul(position, FromInt(sample_rate)), m.playback_rate))]

Cmd_seek_to(m, position, sample_rate) ==
    [m EXCEPT !.index =
        RoundAsUsize(RDiv(RMul(position, FromInt(sample_rate)), m.playback_rate))]

Cmd_set_low_pass(m, low_pass) == [m EXCEPT !.low_pass = low_pass]

\* A faulty variant, for comparison: FadeIn leaves a paused renderer paused.
Cmd_fade_in_paused(m, time, sample_rate) ==
    [m EXCEPT !.fade_time = Round(RMul(time, FromInt(sample_rate))),
              !.fade_current = 0]

Cmd_fade_in(m, time, sample_rate) ==
    LET u == IF m.paused
             THEN Store_paused([m EXCEPT !.paused = FALSE], FALSE)
             ELSE m
    IN  [u EXCEPT !.fade_time = Round(RMul(time, FromInt(sample_rate))),
                  !.fade_current = 0]

\* A faulty variant, for comparison: FadeOut stores the duration unnegated.
Cmd_fade_out_unsigned(m, time, sample_rate) ==
    [m EXCEPT !.fade_time = Round(RMul(time, FromInt(sample_rate))),
              !.fade_current = 0]

Cmd_fade_out(m, time, sample_rate) ==
    [m EXCEPT !.fade_time = Round(RMul(RNeg(time), FromInt(sample_rate))),
              !.fade_current = 0]

Music_apply(m, cmd, sample_rate) ==
    CASE cmd.op = "Pause" -> Cmd_pause(m)
      [] cmd.op = "Resume" -> Cmd_resume(m)
      [] cmd.op = "SetAmplifier" -> Cmd_set_amplifier(m, cmd.v)
      [] cmd.op = "SeekTo" -> Cmd_seek_to(m, cmd.v, sample_rate)
      [] cmd.op = "SetLowPass" -> Cmd_set_low_pass(m, cmd.v)
      [] cmd.op = "FadeIn" -> Cmd_fade_in(m, cmd.v, sample_rate)
      [] cmd.op = "FadeOut" -> Cmd_fade_out(m, cmd.v, sample_rate)

\* A faulty variant, for comparison: the newest pending command is taken first.
Pop_last(q) == [item |-> q[Len(q)], rest |-> SubSeq(q, 1, Len(q) - 1)]

\* `self.cons.pop_iter()`: the oldest pending command, and the queue without it.
Pop_first(q) == [item |-> Head(q), rest |-> Tail(q)]

\* `for cmd in self.cons.pop_iter() { match cmd { .. } }`
RECURSIVE Music_drain(_, _)
Music_drain(m, sample_rate) ==
    IF m.cons = <<>> THEN m
    ELSE LET p == Pop_first(m.cons)
             n == Music_apply(m, p.item, sample_rate)
         IN  Music_drain([n EXCEPT !.cons = p.rest,
                                   !.applied = Append(m.applied, p.item)],
                         sample_rate)

\* A faulty variant, for comparison: the new rate is stored, the index is kept.
Music_adapt_keep(m, sample_rate) == [m EXCEPT !.last_sample_rate = sample_rate]

\* The sample-rate adaptation at the head of prepare.
Music_adapt(m, sample_rate) ==
    IF m.last_sample_rate # sample_rate
    THEN LET factor == Q(sample_rate, m.last_sample_rate)
         IN  [m EXCEPT !.index = RoundAsUsize(RMul(FromInt(m.index), factor)),
                       !.last_sample_rate = sample_rate,
                       !.fade_time = Round(RMul(FromInt(m.fade_time), factor)),
                       !.fade_current = Round(RMul(FromInt(m.fade_current), factor))]
    ELSE m

MusicRenderer_prepare(m, sample_rate) ==
    Music_drain(Music_adapt(m, sample_rate), sample_rate)

\* The branch of frame() taken when the clip has no sample at `position`
\* and the source does not loop.
Music_clip_end(m) == [m |-> [m EXCEPT !.paused = TRUE], out |-> None]

\* The fade envelope of frame(), after the index was advanced.
Music_fade(m, fr) ==
    IF m.fade_time # 0
    THEN IF m.fade_time > 0
         THEN LET fc == m.fade_current + 1
              IN  IF fc >= m.fade_time
                  THEN [m |-> [m EXCEPT !.fade_current = fc, !.fade_time = 0],
                        out |-> Some(Frame_mul(fr, m.amplifier))]
                  ELSE [m |-> [m EXCEPT !.fade_current = fc],
                        out |-> Some(Frame_mul(fr,
                                   RMul(m.amplifier, Q(fc, m.fade_time))))]
         ELSE LET fc == m.fade_current - 1
              IN  IF fc <= m.fade_time
                  THEN [m |-> Store_paused([m EXCEPT !.fade_current = fc,
                                                     !.fade_time = 0,
                                                     !.paused = TRUE], TRUE),
                        out |-> None]
                  ELSE [m |-> [m EXCEPT !.fade_current = fc],
                        out |-> Some(Frame_mul(fr,
                                   RMul(m.amplifier,
                                        RSub(One, Q(fc, m.fade_time)))))]
    ELSE [m |-> m, out |-> Some(Frame_mul(fr, m.amplifier))]

\* Faulty variant, for comparison: the loop restarts at the head of the clip.
Music_wrapped_head(m, position) == RSub(position, AudioClip_length(m.clip))

\* `position - self.clip.length() + s.loop_mix_time`
Music_wrapped(m, position) ==
    RAdd(RSub(position, AudioClip_length(m.clip)), m.loop_mix_time)

\* Faulty variant, for comparison: a mix time of zero does not loop.
Music_loops_mixing(m) == RLt(Zero, m.loop_mix_time)

\* `s.loop_mix_time >= 0.`
Music_loops(m) == RLe(Zero, m.loop_mix_time)

MusicRenderer_frame(m, position, delta) ==
    LET Mixed(s, extra) ==
            Music_fade([m EXCEPT !.index = m.index + 1],
                       IF extra.ok THEN Frame_add(s.frame, extra.frame)
                       ELSE s.frame)
        Sampled(s, mixpos) ==
            Mixed(s, IF RLe(Zero, m.loop_mix_time) /\ RLe(Zero, mixpos)
                     THEN AudioClip_sample(m.clip, mixpos) ELSE None)
        Looped(wrapped, w) ==
            [m |-> [m EXCEPT !.index = RoundAsUsize(RDiv(wrapped, delta))],
             out |-> Some(IF w.ok THEN Frame_mul(w.frame, m.amplifier)
                          ELSE FrameDefault)]
        Wrapped(wrapped) == Looped(wrapped, AudioClip_sample(m.clip, wrapped))
        Got(s) ==
            IF s.ok
            THEN Sampled(s, RSub(RAdd(position, m.loop_mix_time),
                                 AudioClip_length(m.clip)))
            ELSE IF Music_loops(m)
            THEN Wrapped(Music_wrapped(m, position))
            ELSE Music_clip_end(m)
    IN  Got(AudioClip_sample(m.clip, position))

MusicRenderer_position(m, delta) == RMul(FromInt(m.index), delta)

MusicRenderer_update_and_get(m, fr) ==
    [m EXCEPT !.last_output =
        Frame_add(Frame_mul(m.last_output, m.low_pass),
                  Frame_mul(fr, RSub(One, m.low_pass)))]

\* Faulty variants, for comparison: a playing renderer counts as alive; a paused one as dead.
MusicRenderer_alive_playing(m) == m.strong # 0 \/ ~m.paused
MusicRenderer_alive_unpaused(m) == m.strong # 0 /\ ~m.paused

\* `self.state.strong_count() != 0`
MusicRenderer_alive(m) == m.strong # 0

\* The sample loop of render_mono from sample k on.
RECURSIVE Music_loop_mono(_, _, _, _, _)
Music_loop_mono(m, data, position, delta, k) ==
    LET Updated(u) ==
            Music_loop_mono(u,
                [data EXCEPT ![k] = RAdd(@, Frame_avg(u.last_output))],
                RAdd(position, delta), delta, k + 1)
        Got(f) ==
            IF f.out.ok
            THEN Updated(MusicRenderer_update_and_get(f.m, f.out.frame))
            ELSE [m |-> f.m, data |-> data]
    IN  IF k > Len(data) THEN [m |-> m, data |-> data]
        ELSE Got(MusicRenderer_frame(m, position, delta))

\* The chunk loop of render_stereo from chunk k on (chunks_exact_mut(2)).
RECURSIVE Music_loop_stereo(_, _, _, _, _)
Music_loop_stereo(m, data, position, delta, k) ==
    LET Updated(u) ==
            Music_loop_stereo(u,
                [data EXCEPT ![2 * k - 1] = RAdd(@, u.last_output[1]),
                             ![2 * k] = RAdd(@, u.last_output[2])],
                RAdd(position, delta), delta, k + 1)
        Got(f) ==
            IF f.out.ok
            THEN Updated(MusicRenderer_update_and_get(f.m, f.out.frame))
            ELSE [m |-> f.m, data |-> data]
    IN  IF 2 * k > Len(data) THEN [m |-> m, data |-> data]
        ELSE Got(MusicRenderer_frame(m, position, delta))

\* A faulty variant, for comparison: the playback rate is left out of the step.
Music_delta_unscaled(m, sample_rate) == Q(1, sample_rate)

Music_delta(m, sample_rate) == RMul(Q(1, sample_rate), m.playback_rate)

\* render_* after prepare left the renderer p.
Music_render_prepared(p, sample_rate, data, stereo) ==
    LET Stored(l, delta) ==
            [m |-> Store_position(l.m, MusicRenderer_position(l.m, delta)),
             data |-> l.data]
        Loop(position, delta) ==
            IF stereo THEN Music_loop_stereo(p, data, position, delta, 1)
            ELSE Music_loop_mono(p, data, position, delta, 1)
        Playing(delta) ==
            Stored(Loop(RMul(FromInt(p.index), delta), delta), delta)
    IN  IF ~p.paused THEN Playing(Music_delta(p, sample_rate))
        ELSE [m |-> p, data |-> data]

MusicRenderer_render_mono(m, sample_rate, data) ==
    Music_render_prepared(MusicRenderer_prepare(m, sample_rate), sample_rate,
                          data, FALSE)

MusicRenderer_render_stereo(m, sample_rate, data) ==
    Music_render_prepared(MusicRenderer_prepare(m, sample_rate), sample_rate,
                          data, TRUE)

\* Faulty variant, for comparison: the new renderer is playing.
Music_new_playing(clip, settings) ==
    [clip |-> clip,
     loop_mix_time |-> settings.loop_mix_time,
     amplifier |-> settings.amplifier,
     playback_rate |-> settings.playback_rate,
     paused |-> FALSE,
     index |-> 0,
     last_sample_rate |-> 1,
     low_pass |-> Zero,
     last_output |-> Frame(Zero, Zero),
     fade_time |-> 0,
     fade_current |-> 0]

\* Music::new: the renderer half and the shared state (SharedState::default).
SharedState_default == [position |-> Zero, paused |-> TRUE]

Music_new(clip, settings) ==
    [clip |-> clip,
     loop_mix_time |-> settings.loop_mix_time,
     amplifier |-> settings.amplifier,
     playback_rate |-> settings.playback_rate,
     paused |-> TRUE,
     index |-> 0,
     last_sample_rate |-> 1,
     low_pass |-> Zero,
     last_output |-> Frame(Zero, Zero),
     fade_time |-> 0,
     fade_current |-> 0]


(***************************************************************************)
(* SfxRenderer (renderer/sfx.rs).  The queue holds one entry               *)
(* [position, amplifier] per trigger; render walks all of them and then    *)
(* advances the queue by the number of voices found exhausted.             *)
(***************************************************************************)
Entry(position, amplifier) == [position |-> position, amplifier |-> amplifier]

\* The inner `for sample in data.iter_mut()` of render_mono, from sample k.
RECURSIVE Sfx_voice_mono(_, _, _, _, _)
Sfx_voice_mono(clip, e, data, delta, k) ==
    LET Got(s) ==
            IF s.ok
            THEN Sfx_voice_mono(clip,
                    [e EXCEPT !.position = RAdd(e.position, delta)],
                    [data EXCEPT ![k] =
                        RAdd(@, RMul(Frame_avg(s.frame), e.amplifier))],
                    delta, k + 1)
            ELSE [e |-> e, data |-> data, done |-> TRUE]
    IN  IF k > Len(data) THEN [e |-> e, data |-> data, done |-> FALSE]
        ELSE Got(AudioClip_sample(clip, e.position))

\* The inner `for sample in data.chunks_exact_mut(2)` of render_stereo.
RECURSIVE Sfx_voice_stereo(_, _, _, _, _)
Sfx_voice_stereo(clip, e, data, delta, k) ==
    LET Got(s) ==
            IF s.ok
            THEN Sfx_voice_stereo(clip,
                    [e EXCEPT !.position = RAdd(e.position, delta)],
                    [data EXCEPT
                        ![2 * k - 1] = RAdd(@, RMul(s.frame[1], e.amplifier)),
                        ![2 * k] = RAdd(@, RMul(s.frame[2], e.amplifier))],
                    delta, k + 1)
            ELSE [e |-> e, data |-> data, done |-> TRUE]
    IN  IF 2 * k > Len(data) THEN [e |-> e, data |-> data, done |-> FALSE]
        ELSE Got(AudioClip_sample(clip, e.position))

Sfx_voice(clip, e, data, delta, stereo) ==
    IF stereo THEN Sfx_voice_stereo(clip, e, data, delta, 1)
    ELSE Sfx_voice_mono(clip, e, data, delta, 1)

\* The outer `for (position, params) in self.cons.iter_mut()`, from entry i:
\* w.cons holds the entries updated in place, w.exhausted the indices of the
\* entries whose clip was found exhausted, w.pop_count their number.
RECURSIVE Sfx_walk(_, _, _, _, _)
Sfx_walk(clip, w, delta, stereo, i) ==
    LET Voiced(v) ==
            Sfx_walk(clip,
                     [cons |-> [w.cons EXCEPT ![i] = v.e],
                      data |-> v.data,
                      pop_count |-> IF v.done THEN w.pop_count + 1
                                    ELSE w.pop_count,
                      exhausted |-> IF v.done THEN w.exhausted \cup {i}
                                    ELSE w.exhausted],
                     delta, stereo, i + 1)
    IN  IF i > Len(w.cons) THEN w
        ELSE Voiced(Sfx_voice(clip, w.cons[i], w.data, delta, stereo))

\* A faulty variant, for comparison: the newest entries are dropped.
Advance_newest(q, n) == SubSeq(q, 1, Len(q) - n)

\* `self.cons.advance(pop_count)`: drops the pop_count oldest entries.
Advance(q, n) == SubSeq(q, n + 1, Len(q))

\* A faulty variant, for comparison: the position advances by one second per
\* output frame whatever the stream's rate.
Sfx_render_unscaled(clip, cons, sample_rate, data, stereo) ==
    LET Walked(w) ==
            [cons |-> Advance(w.cons, w.pop_count), data |-> w.data,
             walked |-> w.cons, pop_count |-> w.pop_count,
             exhausted |-> w.exhausted]
    IN  Walked(Sfx_walk(clip,
                        [cons |-> cons, data |-> data, pop_count |-> 0,
                         exhausted |-> {}],
                        One, stereo, 1))

Sfx_render(clip, cons, sample_rate, data, stereo) ==
    LET Walked(w) ==
            [cons |-> Advance(w.cons, w.pop_count), data |-> w.data,
             walked |-> w.cons, pop_count |-> w.pop_count,
             exhausted |-> w.exhausted]
    IN  Walked(Sfx_walk(clip,
                        [cons |-> cons, data |-> data, pop_count |-> 0,
                         exhausted |-> {}],
                        Q(1, sample_rate), stereo, 1))

SfxRenderer_render_mono(clip, cons, sample_rate, data) ==
    Sfx_render(clip, cons, sample_rate, data, FALSE)

SfxRenderer_render_stereo(clip, cons, sample_rate, data) ==
    Sfx_render(clip, cons, sample_rate, data, TRUE)

(***************************************************************************)
(* The bounded SPSC ring buffers (ringbuf::HeapRb) between the handles and *)
(* the renderers: push fails when the buffer holds `capacity` entries.     *)
(***************************************************************************)
Is_full(q, capacity) == Len(q) >= capacity

\* A faulty variant, for comparison: a full buffer overwrites its oldest entry.
Push_overwrite(q, capacity, x) ==
    IF Is_full(q, capacity) THEN [ok |-> TRUE, q |-> Append(Tail(q), x)]
    ELSE [ok |-> TRUE, q |-> Append(q, x)]

Push(q, capacity, x) ==
    IF Is_full(q, capacity) THEN [ok |-> FALSE, q |-> q]
    ELSE [ok |-> TRUE, q |-> Append(q, x)]


(***************************************************************************)
(* LatencyRecorder (lib.rs): a ring of the last LATENCY_RECORD_NUM delays  *)
(* with their running sum; push publishes the mean into the shared atomic. *)
(***************************************************************************)
LATENCY_RECORD_NUM == 64

LatencyRecorder_new ==
    [records |-> [i \in 1..LATENCY_RECORD_NUM |-> Zero], head |-> 0,
     sum |-> Zero, full |-> FALSE]

\* A faulty variant, for comparison: the displaced sample is not subtracted.
LatencyRecorder_sum_keep(sum, record, place) == RAdd(sum, record)

\* `self.sum += record - *place`
LatencyRecorder_sum(sum, record, place) == RAdd(sum, RSub(record, place))

\* push: the recorder it leaves (rec) and the value it stores (result).
LatencyRecorder_push(r, record) ==
    LET Stored(n) ==
            [rec |-> n,
             result |-> RDiv(n.sum,
                             FromInt(IF n.full THEN LATENCY_RECORD_NUM
                                     ELSE IF n.head >= 1 THEN n.head ELSE 1))]
        Advanced(head) ==
            Stored([records |-> [r.records EXCEPT ![r.head + 1] = record],
                    sum |-> LatencyRecorder_sum(r.sum, record,
                                                r.records[r.head + 1]),
                    head |-> IF head = LATENCY_RECORD_NUM THEN 0 ELSE head,
                    full |-> r.full \/ head = LATENCY_RECORD_NUM])
    IN  Advanced(r.head + 1)

(***************************************************************************)
(* State.  Sources are numbered in the order the AudioManager creates      *)
(* them; the per-source variables are sequences indexed by that number.    *)
(***************************************************************************)
VARIABLES
    sample_rate,      \* Mixer.sample_rate, written by Backend::start
    channels,         \* channel count of the running stream (1 or 2)
    renderers,        \* Mixer.renderers, as source numbers
    mixer_cons,       \* the AddRenderer commands pushed and not yet drained
    kind,             \* "music" or "sfx"
    renderer,         \* the renderer's own fields
    cons,             \* the ring buffer between the handle and its renderer
    cap,              \* that ring buffer's capacity
    state,            \* Arc<SharedState> of a Music (position, paused)
    arc,              \* strong count the handle holds (1, or 0 once dropped)
    data,             \* the output buffer of the callback
    pc,               \* where the audio callback is
    cur,              \* retain_mut's position in renderers
    applied,          \* history: the commands the last prepare applied, in order
    posted,           \* history: the entries enqueued since the last render
    batch,            \* history: what posted held when the last render began
    pause_held,       \* history: the last Pause/Resume/FadeIn applied was a Pause
    ret,              \* the source of the last application call and whether it returned Ok
    calls,            \* number of calls the application has made
    callbacks,        \* number of callbacks started
    solo,             \* history: sum of each source rendered alone (this callback)
    dropped_at_begin, \* history: handles already dropped when the callback began
    removed,          \* history: sources retain_mut has removed
    rejected,         \* history: sources whose add_renderer failed
    sfx_last,         \* history: what the last SfxRenderer render walked and popped
    broken,           \* the backend's broken flag (Arc<AtomicBool>)
    stream,           \* CpalBackend.stream: the stream held (0: None)
    streams,          \* the streams built so far, with their channel count
    live,             \* the streams built and neither dropped nor replaced
    start_pc,         \* where the application thread is inside Backend::start
    starts,           \* history: number of calls of Backend::start
    raced,            \* history: two threads were inside the StateCell at once
    cb_stream,        \* the stream whose data callback is running (0: none)
    rec,              \* the LatencyRecorder
    latency,          \* the atomic the LatencyRecorder publishes into
    pushed,           \* history: the delays pushed into the LatencyRecorder
    signalled,        \* history: the flag was set and no call has returned true since
    backend,          \* the Backend given: "cpal", "oboe", "ohos" or "custom"
    manager,          \* where AudioManager::new_box is, and how it ended
    probe,            \* an AudioClip, a position, and what sample() returned for them
    stretcher         \* a Stretcher, and what iterating it has yielded so far

vars == <<sample_rate, channels, renderers, mixer_cons, kind, renderer, cons,
          cap, state, arc, data, pc, cur, applied, posted, batch, pause_held,
          ret, calls,
          callbacks, solo, dropped_at_begin, removed, rejected, sfx_last,
          broken, stream, streams, live, start_pc, starts, raced, cb_stream,
          rec, latency, pushed, signalled, backend, manager, probe, stretcher>>

src_vars == <<kind, renderer, cons, cap, state, arc, applied, posted, batch,
              pause_held>>
cb_vars == <<data, pc, cur, callbacks, solo, dropped_at_begin, removed, sfx_last>>
be_vars == <<broken, stream, streams, live, start_pc, starts, raced, cb_stream,
             rec, latency, pushed, signalled>>
\* What the callbacks and the calls of a running manager leave alone.
ext_vars == <<backend, manager, probe, stretcher>>
\* Everything but the clip probe and the Stretcher.
prog_vars == <<sample_rate, channels, renderers, mixer_cons, src_vars, cb_vars,
               ret, calls, rejected, be_vars, backend, manager>>

\* HeapRb::new(16) in AudioManager::new_box
MixerCap == 16

Ids == 1..Len(kind)
RendererFields ==
    {"clip", "loop_mix_time", "amplifier", "playback_rate", "paused", "index",
     "last_sample_rate", "low_pass", "last_output", "fade_time", "fade_current"}

\* The renderer of music source id together with what it reaches.
Music_of(id) ==
    renderer[id] @@ [cons |-> cons[id], state |-> state[id],
                     strong |-> arc[id], applied |-> <<>>]

Zeros(n) == [i \in 1..n |-> Zero]
Buf_add(a, b) == [i \in 1..Len(a) |-> RAdd(a[i], b[i])]
Remove_at(q, i) == SubSeq(q, 1, i - 1) \o SubSeq(q, i + 1, Len(q))

NoCall == [id |-> 0, ok |-> TRUE]
NoSfx == [id |-> 0, walked |-> <<>>, after |-> <<>>, pop_count |-> 0,
          exhausted |-> {}]

(***************************************************************************)
(* AudioManager (lib.rs): the application thread.                          *)
(***************************************************************************)
\* add_renderer: push AddRenderer(id) onto the mixer's command queue.
AudioManager_add_renderer(id) == Push(mixer_cons, MixerCap, id)

\* create_music: Music::new, then add_renderer; on failure `?` returns the
\* error and both halves are dropped.
AudioManager_create_music(clip, settings) ==
    LET id == Len(kind) + 1
        p == AudioManager_add_renderer(id)
    IN  /\ mixer_cons' = p.q
        /\ kind' = Append(kind, "music")
        /\ renderer' = Append(renderer, Music_new(clip, settings))
        /\ cons' = Append(cons, <<>>)
        /\ cap' = Append(cap, settings.command_buffer_size)
        /\ state' = Append(state, SharedState_default)
        /\ arc' = Append(arc, IF p.ok THEN 1 ELSE 0)
        /\ applied' = Append(applied, <<>>)
        /\ posted' = Append(posted, <<>>)
        /\ batch' = Append(batch, <<>>)
        /\ pause_held' = Append(pause_held, FALSE)
        /\ rejected' = IF p.ok THEN rejected ELSE rejected \cup {id}
        /\ ret' = [id |-> id, ok |-> p.ok]
        /\ calls' = calls + 1
        /\ UNCHANGED <<ext_vars, be_vars, sample_rate, channels, renderers, cb_vars>>

\* create_sfx: Sfx::new (buffer_size.unwrap_or(64)), then add_renderer.
AudioManager_create_sfx(clip, buffer_size) ==
    LET id == Len(kind) + 1
        p == AudioManager_add_renderer(id)
    IN  /\ mixer_cons' = p.q
        /\ kind' = Append(kind, "sfx")
        /\ renderer' = Append(renderer, [clip |-> clip])
        /\ cons' = Append(cons, <<>>)
        /\ cap' = Append(cap, buffer_size)
        /\ state' = Append(state, SharedState_default)
        /\ arc' = Append(arc, IF p.ok THEN 1 ELSE 0)
        /\ applied' = Append(applied, <<>>)
        /\ posted' = Append(posted, <<>>)
        /\ batch' = Append(batch, <<>>)
        /\ pause_held' = Append(pause_held, FALSE)
        /\ rejected' = IF p.ok THEN rejected ELSE rejected \cup {id}
        /\ ret' = [id |-> id, ok |-> p.ok]
        /\ calls' = calls + 1
        /\ UNCHANGED <<ext_vars, be_vars, sample_rate, channels, renderers, cb_vars>>

(***************************************************************************)
(* Music and Sfx handles: every post is one push onto the handle's queue.  *)
(***************************************************************************)
Handle_post(id, x, op) ==
    LET p == Push(cons[id], cap[id], x)
    IN  /\ arc[id] > 0
        /\ cons' = [cons EXCEPT ![id] = p.q]
        /\ posted' = [posted EXCEPT ![id] = IF p.ok THEN Append(@, x) ELSE @]
        /\ ret' = [id |-> id, ok |-> p.ok]
        /\ calls' = calls + 1
        /\ UNCHANGED <<ext_vars, be_vars, sample_rate, channels, renderers, mixer_cons, kind,
                       renderer, cap, state, arc, applied, batch, pause_held,
                       rejected, cb_vars>>

Music_play(id) ==
    kind[id] = "music" /\ Handle_post(id, Cmd("Resume", Zero), "play music")
Music_pause(id) ==
    kind[id] = "music" /\ Handle_post(id, Cmd("Pause", Zero), "pause")
Music_set_amplifier(id, amp) ==
    kind[id] = "music" /\ Handle_post(id, Cmd("SetAmplifier", amp), "set amplifier")
Music_seek_to(id, position) ==
    kind[id] = "music" /\ Handle_post(id, Cmd("SeekTo", position), "seek to")
Music_set_low_pass(id, low_pass) ==
    kind[id] = "music" /\ Handle_post(id, Cmd("SetLowPass", low_pass), "set low pass")
Music_fade_in(id, time) ==
    kind[id] = "music" /\ Handle_post(id, Cmd("FadeIn", time), "fade in")
Music_fade_out(id, time) ==
    kind[id] = "music" /\ Handle_post(id, Cmd("FadeOut", time), "fade out")

\* Sfx::play pushes (0., params).
Sfx_play(id, amplifier) ==
    kind[id] = "sfx" /\ Handle_post(id, Entry(Zero, amplifier), "play sfx")

\* Music::paused and Music::position read the shared atomics.
Music_paused(id) == state[id].paused
Music_position(id) == state[id].position

\* The application drops a Music or Sfx handle: its Arc goes away.
Handle_drop(id) ==
    /\ arc[id] > 0
    /\ arc' = [arc EXCEPT ![id] = 0]
    /\ ret' = [id |-> id, ok |-> TRUE]
    /\ calls' = calls + 1
    /\ UNCHANGED <<ext_vars, be_vars, sample_rate, channels, renderers, mixer_cons, kind, renderer,
                   cons, cap, state, applied, posted, batch, pause_held,
                   rejected, cb_vars>>

(***************************************************************************)
(* Mixer (mixer.rs): the audio callback.  render_mono / render_stereo are  *)
(* taken in steps, so that the application thread can run between them:    *)
(* begin (consume_commands, fill), then per source of retain_mut the       *)
(* render call and the alive() call, then the return.                      *)
(***************************************************************************)
Restrict(f, S) == [x \in S |-> f[x]]

\* A faulty variant, for comparison: the pending sources are put in front.
Mixer_consume_commands_front(list, pending) == pending \o list

\* consume_commands: every pending AddRenderer is pushed onto renderers.
Mixer_consume_commands(list, pending) == list \o pending

\* A faulty variant, for comparison: the buffer is not cleared.
Fill_keep(d) == d

\* data.fill(0.)
Fill(d) == [i \in 1..Len(d) |-> Zero]

\* The head of Mixer::render_*: consume_commands, then fill.
Mixer_enter(buffer) ==
    /\ pc = "idle"
    /\ renderers' = Mixer_consume_commands(renderers, mixer_cons)
    /\ mixer_cons' = <<>>
    /\ data' = Fill(buffer)
    /\ solo' = Zeros(Len(buffer))
    /\ cur' = 1
    /\ pc' = "render"
    /\ dropped_at_begin' = {id \in Ids : arc[id] = 0}
    /\ UNCHANGED <<sample_rate, src_vars, ret, calls, removed, rejected,
                   sfx_last>>

\* A data callback of the running stream begins.
Mixer_begin(buffer) ==
    /\ Mixer_enter(buffer)
    /\ callbacks' = callbacks + 1
    /\ UNCHANGED <<ext_vars, be_vars, channels>>

\* Whether, after prepare applied the commands `done` in order, the last of the
\* commands that set the paused flag was a Pause (`held` when there was none).
RECURSIVE Pause_held_after(_, _)
Pause_held_after(held, done) ==
    IF done = <<>> THEN held
    ELSE Pause_held_after(
            CASE Head(done).op = "Pause" -> TRUE
              [] Head(done).op \in {"Resume", "FadeIn"} -> FALSE
              [] OTHER -> held,
            Tail(done))

Music_render(m, rate, ch, d) ==
    IF ch = 1 THEN MusicRenderer_render_mono(m, rate, d)
    ELSE MusicRenderer_render_stereo(m, rate, d)

SfxRenderer_render(clip, q, rate, ch, d) ==
    IF ch = 1 THEN SfxRenderer_render_mono(clip, q, rate, d)
    ELSE SfxRenderer_render_stereo(clip, q, rate, d)

\* `renderer.render_mono(self.sample_rate, data)` inside retain_mut.
Mixer_render_music ==
    /\ pc = "render"
    /\ cur <= Len(renderers)
    /\ kind[renderers[cur]] = "music"
    /\ LET Rendered(id, res, alone) ==
               /\ renderer' = [renderer EXCEPT
                                  ![id] = Restrict(res.m, RendererFields)]
               /\ cons' = [cons EXCEPT ![id] = res.m.cons]
               /\ state' = [state EXCEPT ![id] = res.m.state]
               /\ applied' = [applied EXCEPT ![id] = res.m.applied]
               /\ batch' = [batch EXCEPT ![id] = posted[id]]
               /\ posted' = [posted EXCEPT ![id] = <<>>]
               /\ pause_held' = [pause_held EXCEPT ![id] =
                                    Pause_held_after(@, res.m.applied)]
               /\ data' = res.data
               /\ solo' = Buf_add(solo, alone.data)
           Render(id, m) ==
               Rendered(id, Music_render(m, sample_rate, channels, data),
                        Music_render(m, sample_rate, channels, Zeros(Len(data))))
           Source(id) == Render(id, Music_of(id))
       IN  Source(renderers[cur])
    /\ pc' = "alive"
    /\ UNCHANGED <<ext_vars, be_vars, sample_rate, channels, renderers, mixer_cons, kind, cap, arc,
                   ret, calls, cur, callbacks, dropped_at_begin, removed,
                   rejected, sfx_last>>

Mixer_render_sfx ==
    /\ pc = "render"
    /\ cur <= Len(renderers)
    /\ kind[renderers[cur]] = "sfx"
    /\ LET Rendered(id, res, alone) ==
               /\ cons' = [cons EXCEPT ![id] = res.cons]
               /\ posted' = [posted EXCEPT ![id] = <<>>]
               /\ data' = res.data
               /\ solo' = Buf_add(solo, alone.data)
               /\ sfx_last' = [id |-> id, walked |-> res.walked,
                               after |-> res.cons, pop_count |-> res.pop_count,
                               exhausted |-> res.exhausted]
           Source(id) ==
               Rendered(id,
                        SfxRenderer_render(renderer[id].clip, cons[id],
                                           sample_rate, channels, data),
                        SfxRenderer_render(renderer[id].clip, cons[id],
                                           sample_rate, channels,
                                           Zeros(Len(data))))
       IN  Source(renderers[cur])
    /\ pc' = "alive"
    /\ UNCHANGED <<ext_vars, be_vars, sample_rate, channels, renderers, mixer_cons, kind, renderer,
                   cap, state, arc, applied, batch, pause_held, ret, calls, cur,
                   callbacks, dropped_at_begin, removed, rejected>>

\* What retain_mut does with the closure's result for the source at cur.
Retain(keep) ==
    IF keep
    THEN /\ cur' = cur + 1
         /\ UNCHANGED <<renderers, removed>>
    ELSE /\ renderers' = Remove_at(renderers, cur)
         /\ removed' = removed \cup {renderers[cur]}
         /\ UNCHANGED cur

\* MusicRenderer::alive inside retain_mut.
Mixer_alive_music ==
    /\ pc = "alive"
    /\ kind[renderers[cur]] = "music"
    /\ Retain(MusicRenderer_alive(Music_of(renderers[cur])))
    /\ pc' = "render"
    /\ UNCHANGED <<ext_vars, be_vars, sample_rate, channels, mixer_cons, src_vars, ret, calls, data,
                   callbacks, solo, dropped_at_begin, rejected, sfx_last>>

\* SfxRenderer::alive is `!self.cons.is_empty() || self.arc.strong_count() != 0`:
\* first the queue is read, and only when it is empty the marker's count.
\* Faulty variant, for comparison: only the handle keeps the renderer alive.
Sfx_queue_ignored(q) == FALSE

Sfx_queue_nonempty(q) == q # <<>>
Sfx_marker_alive(strong) == strong # 0

Mixer_alive_sfx_queue ==
    /\ pc = "alive"
    /\ kind[renderers[cur]] = "sfx"
    /\ IF Sfx_queue_nonempty(cons[renderers[cur]])
       THEN Retain(TRUE) /\ pc' = "render"
       ELSE pc' = "alive_marker" /\ UNCHANGED <<renderers, removed, cur>>
    /\ UNCHANGED <<ext_vars, be_vars, sample_rate, channels, mixer_cons, src_vars, ret, calls, data,
                   callbacks, solo, dropped_at_begin, rejected, sfx_last>>

Mixer_alive_sfx_marker ==
    /\ pc = "alive_marker"
    /\ Retain(Sfx_marker_alive(arc[renderers[cur]]))
    /\ pc' = "render"
    /\ UNCHANGED <<ext_vars, be_vars, sample_rate, channels, mixer_cons, src_vars, ret, calls, data,
                   callbacks, solo, dropped_at_begin, rejected, sfx_last>>

\* retain_mut has visited every source: the callback returns.
Mixer_return ==
    /\ pc = "render"
    /\ cur > Len(renderers)
    /\ pc' = "idle"
    /\ UNCHANGED <<sample_rate, channels, renderers, mixer_cons, src_vars, ret,
                   calls, data, cur, callbacks, solo, dropped_at_begin, removed,
                   rejected, sfx_last>>

\* The callback returns without a delay to record (duration_since gave None).
Mixer_end == Mixer_return /\ UNCHANGED <<ext_vars, be_vars>>

Mixer_step ==
    \/ Mixer_render_music
    \/ Mixer_render_sfx
    \/ Mixer_alive_music
    \/ Mixer_alive_sfx_queue
    \/ Mixer_alive_sfx_marker
    \/ Mixer_end

(***************************************************************************)
(* Backend (backend.rs, backend/cpal.rs) and the AudioManager calls that   *)
(* reach it.  Backend::start is taken in steps, because the data callbacks *)
(* of the streams already playing run while the application is inside it.  *)
(***************************************************************************)
NoStart == [at |-> "none", channels |-> 0, by |-> "none"]
BackendRet(ok, value) == [id |-> 0, ok |-> ok, value |-> value]

\* A faulty variant, for comparison: the flag is read and left as it is.
Fetch_load(flag, v) == [old |-> flag, new |-> flag]

\* AtomicBool::fetch_and(v): one read-modify-write.
Fetch_and(flag, v) == [old |-> flag, new |-> flag /\ v]

\* The error callback of stream s reports StreamError::DeviceNotAvailable.
Backend_error(s) ==
    /\ s \in live
    /\ broken' = TRUE
    /\ signalled' = TRUE
    /\ UNCHANGED <<ext_vars, sample_rate, channels, renderers, mixer_cons, src_vars,
                   cb_vars, ret, calls, rejected, stream, streams, live,
                   start_pc, starts, raced, cb_stream, rec, latency, pushed>>

\* AudioManager::consume_broken -> CpalBackend::consume_broken
AudioManager_consume_broken ==
    /\ start_pc.at = "none"
    /\ broken' = Fetch_and(broken, FALSE).new
    /\ ret' = BackendRet(TRUE, Fetch_and(broken, FALSE).old)
    /\ calls' = calls + 1
    /\ signalled' = (signalled /\ ~Fetch_and(broken, FALSE).old)
    /\ UNCHANGED <<ext_vars, sample_rate, channels, renderers, mixer_cons, src_vars,
                   cb_vars, rejected, stream, streams, live, start_pc, starts,
                   raced, cb_stream, rec, latency, pushed>>

\* A faulty variant, for comparison: the application thread enters start() twice.
Backend_start_twice(n) == n + 2

\* One more call of Backend::start.
Backend_start_called(n) == n + 1

\* AudioManager::start -> CpalBackend::start: the application thread enters.
AudioManager_start ==
    /\ start_pc.at = "none"
    /\ start_pc' = [at |-> "entered", channels |-> 0, by |-> "start"]
    /\ starts' = Backend_start_called(starts)
    /\ calls' = calls + 1
    /\ UNCHANGED <<ext_vars, sample_rate, channels, renderers, mixer_cons, src_vars,
                   cb_vars, ret, rejected, broken, stream, streams, live,
                   raced, cb_stream, rec, latency, pushed, signalled>>

\* AudioManager::recover_if_needed: `if self.consume_broken() { self.start() }
\* else { Ok(()) }`.
AudioManager_recover_if_needed ==
    /\ start_pc.at = "none"
    /\ broken' = Fetch_and(broken, FALSE).new
    /\ calls' = calls + 1
    /\ signalled' = (signalled /\ ~Fetch_and(broken, FALSE).old)
    /\ IF Fetch_and(broken, FALSE).old
       THEN /\ start_pc' = [at |-> "entered", channels |-> 0,
                            by |-> "recover_if_needed"]
            /\ starts' = Backend_start_called(starts)
            /\ UNCHANGED ret
       ELSE /\ ret' = BackendRet(TRUE, FALSE)
            /\ UNCHANGED <<start_pc, starts>>
    /\ UNCHANGED <<ext_vars, sample_rate, channels, renderers, mixer_cons, src_vars,
                   cb_vars, rejected, stream, streams, live, raced, cb_stream,
                   rec, latency, pushed>>

\* A faulty variant, for comparison: a failed start() sets the flag again.
Backend_start_fail_flagging ==
    /\ start_pc.at = "entered"
    /\ start_pc' = NoStart
    /\ ret' = BackendRet(FALSE, FALSE)
    /\ broken' = TRUE
    /\ UNCHANGED <<ext_vars, sample_rate, channels, renderers, mixer_cons, src_vars,
                   cb_vars, calls, rejected, stream, streams, live,
                   starts, raced, cb_stream, rec, latency, pushed, signalled>>

\* cpal.rs 44-51: no default output device or no output config: `?` returns
\* the error before anything was written.
Backend_start_fail ==
    /\ start_pc.at = "entered"
    /\ start_pc' = NoStart
    /\ ret' = BackendRet(FALSE, FALSE)
    /\ UNCHANGED <<ext_vars, sample_rate, channels, renderers, mixer_cons, src_vars,
                   cb_vars, calls, rejected, broken, stream, streams, live,
                   starts, raced, cb_stream, rec, latency, pushed, signalled>>

\* cpal.rs 64-65: `state.get().0.sample_rate = config.sample_rate.0`, written by
\* the application thread; a data callback inside the mixer races with it.
Backend_start_write(rate, ch) ==
    /\ start_pc.at = "entered"
    /\ sample_rate' = rate
    /\ start_pc' = [start_pc EXCEPT !.at = "written", !.channels = ch]
    /\ raced' = (raced \/ pc # "idle")
    /\ UNCHANGED <<ext_vars, channels, renderers, mixer_cons, src_vars, cb_vars, ret,
                   calls, rejected, broken, stream, streams, live, starts,
                   cb_stream, rec, latency, pushed, signalled>>

\* cpal.rs 66-94: build_output_stream on the same Arc<StateCell>, stream.play().
Backend_start_play ==
    /\ start_pc.at = "written"
    /\ streams' = Append(streams, [channels |-> start_pc.channels])
    /\ live' = live \cup {Len(streams) + 1}
    /\ start_pc' = [start_pc EXCEPT !.at = "playing"]
    /\ UNCHANGED <<ext_vars, sample_rate, channels, renderers, mixer_cons, src_vars,
                   cb_vars, ret, calls, rejected, broken, stream, starts, raced,
                   cb_stream, rec, latency, pushed, signalled>>

\* cpal.rs 95-96: `self.stream = Some(stream)` drops the stream held before.
Backend_start_assign ==
    /\ start_pc.at = "playing"
    /\ live' = live \ {stream}
    /\ stream' = Len(streams)
    /\ start_pc' = NoStart
    /\ ret' = BackendRet(TRUE, FALSE)
    /\ UNCHANGED <<ext_vars, sample_rate, channels, renderers, mixer_cons, src_vars,
                   cb_vars, calls, rejected, broken, streams, starts, raced,
                   cb_stream, rec, latency, pushed, signalled>>

\* The data callback of stream s begins: `state.get()`, mixer.render_*(data).
Stream_callback(s, buffer) ==
    /\ s \in live
    /\ Mixer_enter(buffer)
    /\ callbacks' = callbacks + 1
    /\ channels' = streams[s].channels
    /\ cb_stream' = s
    /\ UNCHANGED <<ext_vars, broken, stream, streams, live, start_pc, starts, raced, rec,
                   latency, pushed, signalled>>

\* The data callback of stream s begins while the callback of another stream is
\* inside the mixer: two `&mut (Mixer, LatencyRecorder)` at once.
Stream_callback_overlap(s) ==
    /\ s \in live
    /\ pc # "idle"
    /\ cb_stream # s
    /\ ~raced
    /\ raced' = TRUE
    /\ UNCHANGED <<ext_vars, sample_rate, channels, renderers, mixer_cons, src_vars,
                   cb_vars, ret, calls, rejected, broken, stream, streams, live,
                   start_pc, starts, cb_stream, rec, latency, pushed, signalled>>

\* `rec.push(delay)`: the recorder, the atomic it stores into, and the history.
Rec_push(delay) ==
    /\ rec' = LatencyRecorder_push(rec, delay).rec
    /\ latency' = LatencyRecorder_push(rec, delay).result
    /\ pushed' = Append(pushed, delay)

\* The callback returns with a delay: `rec.push(delay.as_secs_f32())`.
Callback_return(delay) ==
    /\ Mixer_return
    /\ Rec_push(delay)
    /\ UNCHANGED <<ext_vars, broken, stream, streams, live, start_pc, starts,
                   raced, cb_stream, signalled>>

\* AudioManager::estimate_latency
AudioManager_estimate_latency == latency

(***************************************************************************)
(* Inputs.                                                                 *)
(***************************************************************************)
ClipA == [frames |-> <<Frame(One, Zero), Frame(Zero, One)>>, sample_rate |-> 1]
ClipB == [frames |-> <<Frame(One, One)>>, sample_rate |-> 2]
\* What the driver hands the callback: an empty buffer or one of n floats, holding
\* whatever the last use left in it.
Buffers(n) == {[i \in 1..k |-> One] : k \in {0, n}}

Settings(loop_mix_time, amplifier, size) ==
    [loop_mix_time |-> loop_mix_time, amplifier |-> amplifier,
     playback_rate |-> One, command_buffer_size |-> size]

\* The backend after AudioManager::new: setup, then the first start().
Backend_init ==
    /\ broken = FALSE
    /\ stream = 1
    /\ streams = <<[channels |-> channels]>>
    /\ live = {1}
    /\ start_pc = NoStart
    /\ starts = 1
    /\ raced = FALSE
    /\ cb_stream = 0
    /\ rec = LatencyRecorder_new
    /\ latency = Zero
    /\ pushed = <<>>
    /\ signalled = FALSE

\* A manager built on the cpal backend; no clip probed, no Stretcher made.
NoManager ==
    [at |-> "built", setups |-> 1, starts |-> 1, result |-> "Ok",
     refused |-> FALSE]
NoProbe == [clip |-> [frames |-> <<>>, sample_rate |-> 1], t |-> Zero,
            out |-> None, called |-> TRUE]
NoStretcher == [made |-> FALSE]
Ext_init ==
    /\ backend = "cpal"
    /\ manager = NoManager
    /\ probe = NoProbe
    /\ stretcher = NoStretcher

\* The state AudioManager::new leaves: a started stream, no source.
Init ==
    /\ sample_rate \in {1, 2}
    /\ channels \in {1, 2}
    /\ renderers = <<>>
    /\ mixer_cons = <<>>
    /\ kind = <<>>
    /\ renderer = <<>>
    /\ cons = <<>>
    /\ cap = <<>>
    /\ state = <<>>
    /\ arc = <<>>
    /\ data = <<>>
    /\ pc = "idle"
    /\ cur = 1
    /\ applied = <<>>
    /\ posted = <<>>
    /\ batch = <<>>
    /\ pause_held = <<>>
    /\ ret = NoCall
    /\ calls = 0
    /\ callbacks = 0
    /\ solo = <<>>
    /\ dropped_at_begin = {}
    /\ removed = {}
    /\ rejected = {}
    /\ sfx_last = NoSfx
    /\ Backend_init
    /\ Ext_init

(***************************************************************************)
(* Spec: the manager creates music and sfx sources, the application posts  *)
(* through and drops their handles, and the audio callback mixes them.     *)
(***************************************************************************)
MaxData == 2          \* longest output buffer, in floats
MaxSources == 2       \* sources created
MaxCalls == 4         \* calls of the application
MaxCallbacks == 1     \* audio callbacks

Create ==
    /\ Len(kind) < MaxSources
    /\ \/ AudioManager_create_music(ClipA, Settings(FromInt(-1), Half, 1))
       \/ AudioManager_create_sfx(ClipA, 1)

Post ==
    \E id \in Ids :
        \/ Music_play(id)
        \/ Sfx_play(id, One)

Drop == \E id \in Ids : Handle_drop(id)

App == calls < MaxCalls /\ (Create \/ Post \/ Drop)

Callback ==
    \/ callbacks < MaxCallbacks /\ \E b \in Buffers(MaxData) : Mixer_begin(b)
    \/ Mixer_step

Next == App \/ Callback

Spec == Init /\ [][Next]_vars

(***************************************************************************)
(* SpecMusic: one music source, every command of its handle, the drop of   *)
(* the handle, and the callbacks that render it.  It starts where          *)
(* create_music has just returned Ok: the renderer waits in the mixer's    *)
(* command queue.                                                          *)
(***************************************************************************)
MaxMusicData == 2
MaxMusicCalls == 3
MaxMusicCallbacks == 2

ClipM == [frames |-> <<Frame(One, Zero), Frame(Zero, One)>>, sample_rate |-> 2]

InitMusic ==
    /\ \E st \in {<<1, 1>>, <<2, 2>>} : sample_rate = st[1] /\ channels = st[2]
    /\ renderers = <<>>
    /\ mixer_cons = <<1>>
    /\ kind = <<"music">>
    /\ \E l \in {FromInt(-1), Zero} :
          renderer = <<Music_new(ClipM, Settings(l, Half, 2))>>
    /\ cons = <<<<>>>>
    /\ cap = <<2>>
    /\ state = <<SharedState_default>>
    /\ arc = <<1>>
    /\ data = <<>>
    /\ pc = "idle"
    /\ cur = 1
    /\ applied = <<<<>>>>
    /\ posted = <<<<>>>>
    /\ batch = <<<<>>>>
    /\ pause_held = <<FALSE>>
    /\ ret = [id |-> 1, ok |-> TRUE]
    /\ calls = 0
    /\ callbacks = 0
    /\ solo = <<>>
    /\ dropped_at_begin = {}
    /\ removed = {}
    /\ rejected = {}
    /\ sfx_last = NoSfx
    /\ Backend_init
    /\ Ext_init

PostMusic ==
    \E id \in Ids :
        \/ Music_play(id)
        \/ Music_pause(id)
        \/ Music_set_amplifier(id, One)
        \/ Music_seek_to(id, One)
        \/ Music_set_low_pass(id, Half)
        \/ Music_fade_in(id, One)
        \/ Music_fade_out(id, One)

AppMusic == calls < MaxMusicCalls /\ (PostMusic \/ Drop)

CallbackMusic ==
    \/ /\ callbacks < MaxMusicCallbacks
       /\ \E b \in Buffers(MaxMusicData) : Mixer_begin(b)
    \/ Mixer_render_music
    \/ Mixer_alive_music
    \/ Mixer_end

NextMusic == AppMusic \/ CallbackMusic

SpecMusic == InitMusic /\ [][NextMusic]_vars

(***************************************************************************)
(* SpecSfx: one sfx source, the triggers and the drop of its handle, and   *)
(* the callbacks that render it.  It starts where create_sfx has just      *)
(* returned Ok.                                                            *)
(***************************************************************************)
MaxSfxData == 2
MaxSfxCalls == 3
MaxSfxCallbacks == 2

InitSfx ==
    /\ \E st \in {<<1, 1>>, <<2, 2>>} : sample_rate = st[1] /\ channels = st[2]
    /\ renderers = <<>>
    /\ mixer_cons = <<1>>
    /\ kind = <<"sfx">>
    /\ renderer = <<[clip |-> ClipA]>>
    /\ cons = <<<<>>>>
    /\ cap = <<2>>
    /\ state = <<SharedState_default>>
    /\ arc = <<1>>
    /\ data = <<>>
    /\ pc = "idle"
    /\ cur = 1
    /\ applied = <<<<>>>>
    /\ posted = <<<<>>>>
    /\ batch = <<<<>>>>
    /\ pause_held = <<FALSE>>
    /\ ret = [id |-> 1, ok |-> TRUE]
    /\ calls = 0
    /\ callbacks = 0
    /\ solo = <<>>
    /\ dropped_at_begin = {}
    /\ removed = {}
    /\ rejected = {}
    /\ sfx_last = NoSfx
    /\ Backend_init
    /\ Ext_init

PostSfx == \E id \in Ids, a \in {One, Half} : Sfx_play(id, a)

AppSfx == calls < MaxSfxCalls /\ (PostSfx \/ Drop)

CallbackSfx ==
    \/ /\ callbacks < MaxSfxCallbacks
       /\ \E b \in Buffers(MaxSfxData) : Mixer_begin(b)
    \/ Mixer_render_sfx
    \/ Mixer_alive_sfx_queue
    \/ Mixer_alive_sfx_marker
    \/ Mixer_end

NextSfx == AppSfx \/ CallbackSfx

SpecSfx == InitSfx /\ [][NextSfx]_vars

(***************************************************************************)
(* SpecAdd: the manager creates music sources until the mixer's command    *)
(* queue is full and beyond, the application drops the first handle it     *)
(* got, and callbacks (of a mono stream, with an empty buffer) drain the   *)
(* queue and prune.                                                        *)
(***************************************************************************)
MaxAddSources == 18
MaxAddCallbacks == 2

InitAdd == Init /\ sample_rate = 1 /\ channels = 1

CreateAdd ==
    /\ Len(kind) < MaxAddSources
    /\ AudioManager_create_music(ClipB, Settings(FromInt(-1), One, 1))

DropAdd == Len(kind) >= 1 /\ Handle_drop(1)

CallbackAdd ==
    \/ callbacks < MaxAddCallbacks /\ Mixer_begin(<<>>)
    \/ Mixer_render_music
    \/ Mixer_alive_music
    \/ Mixer_end

NextAdd == CreateAdd \/ DropAdd \/ CallbackAdd

SpecAdd == InitAdd /\ [][NextAdd]_vars

(***************************************************************************)
(* SpecBackend: one looping music source is playing; the device fails, the *)
(* application polls and restarts the stream, and streams call back.       *)
(***************************************************************************)
MaxBackendData == 2        \* longest output buffer, in floats
MaxBackendCalls == 2       \* calls of the application
MaxBackendCallbacks == 2   \* callbacks started
MaxBackendStarts == 2      \* calls of Backend::start, the first included

\* After create_music and play(), before the first callback.
InitBackend ==
    /\ \E st \in {<<1, 1>>, <<2, 2>>} : sample_rate = st[1] /\ channels = st[2]
    /\ renderers = <<>>
    /\ mixer_cons = <<1>>
    /\ kind = <<"music">>
    /\ renderer = <<Music_new(ClipM, Settings(Zero, Half, 2))>>
    /\ cons = <<<<Cmd("Resume", Zero)>>>>
    /\ cap = <<2>>
    /\ state = <<SharedState_default>>
    /\ arc = <<1>>
    /\ data = <<>>
    /\ pc = "idle"
    /\ cur = 1
    /\ applied = <<<<>>>>
    /\ posted = <<<<Cmd("Resume", Zero)>>>>
    /\ batch = <<<<>>>>
    /\ pause_held = <<FALSE>>
    /\ ret = [id |-> 1, ok |-> TRUE]
    /\ calls = 0
    /\ callbacks = 0
    /\ solo = <<>>
    /\ dropped_at_begin = {}
    /\ removed = {}
    /\ rejected = {}
    /\ sfx_last = NoSfx
    /\ Backend_init
    /\ Ext_init

AppBackend ==
    /\ calls < MaxBackendCalls
    /\ \/ starts < MaxBackendStarts /\ AudioManager_start
       \/ (starts < MaxBackendStarts \/ ~broken) /\ AudioManager_recover_if_needed
       \/ AudioManager_consume_broken

StartBackend ==
    \/ Backend_start_fail
    \/ \E st \in {<<1, 1>>, <<2, 2>>} : Backend_start_write(st[1], st[2])
    \/ Backend_start_play
    \/ Backend_start_assign

DriverBackend == \E s \in live : Backend_error(s)

CallbackBackend ==
    \/ /\ callbacks < MaxBackendCallbacks
       /\ \E s \in live, b \in Buffers(MaxBackendData) : Stream_callback(s, b)
    \/ \E s \in live : Stream_callback_overlap(s)
    \/ Mixer_render_music
    \/ Mixer_alive_music
    \/ Mixer_end
    \/ Callback_return(Half)

NextBackend == AppBackend \/ StartBackend \/ DriverBackend \/ CallbackBackend

SpecBackend == InitBackend /\ [][NextBackend]_vars

(***************************************************************************)
(* SpecLatency: the data callbacks push their delays into the              *)
(* LatencyRecorder.  The first MaxLatencyFree delays and the ones after    *)
(* the ring has wrapped are arbitrary; in between the delay stays the same.*)
(***************************************************************************)
MaxLatencyPushes == 66     \* delays pushed
MaxLatencyFree == 3        \* arbitrary delays before the steady stretch

Delays == {Q(1, 100), Q(2, 100), Q(3, 100)}

PushLatency ==
    /\ Len(pushed) < MaxLatencyPushes
    /\ \E delay \in Delays :
          /\ IF Len(pushed) < MaxLatencyFree \/ Len(pushed) >= LATENCY_RECORD_NUM
             THEN TRUE
             ELSE delay = pushed[Len(pushed)]
          /\ Rec_push(delay)
    /\ UNCHANGED <<sample_rate, channels, renderers, mixer_cons, src_vars,
                   cb_vars, ret, calls, rejected, broken, stream, streams, live,
                   start_pc, starts, raced, cb_stream, signalled, ext_vars>>

NextLatency == PushLatency

SpecLatency == Init /\ [][NextLatency]_vars

(***************************************************************************)
(* SpecPlay: one non-looping music source on the four-frame clip, played,  *)
(* sought and faded in by its handle, rendered by callbacks of several     *)
(* lengths while the driver may change the sample rate between callbacks.  *)
(***************************************************************************)
MaxPlayData == 6         \* longest output buffer, in floats
MaxPlayCalls == 2        \* calls of the application
MaxPlayCallbacks == 2    \* audio callbacks

ClipS ==
    [frames |-> <<Frame(One, Zero), Frame(Zero, One), Frame(FromInt(-1), Zero),
                  Frame(Zero, FromInt(-1))>>,
     sample_rate |-> 2]

\* After create_music, before the first callback.
InitPlay ==
    /\ sample_rate \in {2, 4}
    /\ channels \in {1, 2}
    /\ renderers = <<>>
    /\ mixer_cons = <<1>>
    /\ kind = <<"music">>
    /\ \E rate \in {One, FromInt(2)} :
          renderer = <<Music_new(ClipS, [Settings(FromInt(-1), Half, 2)
                                           EXCEPT !.playback_rate = rate])>>
    /\ cons = <<<<>>>>
    /\ cap = <<2>>
    /\ state = <<SharedState_default>>
    /\ arc = <<1>>
    /\ data = <<>>
    /\ pc = "idle"
    /\ cur = 1
    /\ applied = <<<<>>>>
    /\ posted = <<<<>>>>
    /\ batch = <<<<>>>>
    /\ pause_held = <<FALSE>>
    /\ ret = [id |-> 1, ok |-> TRUE]
    /\ calls = 0
    /\ callbacks = 0
    /\ solo = <<>>
    /\ dropped_at_begin = {}
    /\ removed = {}
    /\ rejected = {}
    /\ sfx_last = NoSfx
    /\ Backend_init
    /\ Ext_init

AppPlay ==
    /\ calls < MaxPlayCalls
    /\ \/ Music_play(1)
       \/ \E position \in {Half, One} : Music_seek_to(1, position)
       \/ Music_fade_in(1, One)

\* The stream reports another sample rate and the mixer's field is set to it
\* before the next callback renders.
Mixer_sample_rate(rate) ==
    /\ pc = "idle"
    /\ rate # sample_rate
    /\ sample_rate' = rate
    /\ UNCHANGED <<ext_vars, be_vars, channels, renderers, mixer_cons, src_vars, cb_vars,
                   ret, calls, rejected>>

CallbackPlay ==
    \/ /\ callbacks < MaxPlayCallbacks
       /\ \E n \in {0, 4, MaxPlayData} : Mixer_begin([i \in 1..n |-> One])
    \/ \E rate \in {2, 4} : Mixer_sample_rate(rate)
    \/ Mixer_render_music
    \/ Mixer_alive_music
    \/ Mixer_end

NextPlay == AppPlay \/ CallbackPlay

SpecPlay == InitPlay /\ [][NextPlay]_vars

(***************************************************************************)
(* SpecFade: one looping music source, playing, whose handle posts         *)
(* FadeOut; the stream keeps calling back with non-empty buffers, and the  *)
(* sample rate may change between callbacks.  Callbacks are not counted:   *)
(* the driver calls back for as long as the stream lives, and a callback   *)
(* that has begun runs to its end.                                         *)
(***************************************************************************)
MaxFadeData == 2         \* longest output buffer, in floats
MaxFadeCalls == 1        \* calls of the application

\* After create_music and play(), before the first callback.
InitFade ==
    /\ sample_rate \in {2, 16}
    /\ channels = 1
    /\ renderers = <<>>
    /\ mixer_cons = <<1>>
    /\ kind = <<"music">>
    /\ renderer = <<Music_new(ClipS, Settings(Zero, Half, 2))>>
    /\ cons = <<<<Cmd("Resume", Zero)>>>>
    /\ cap = <<2>>
    /\ state = <<SharedState_default>>
    /\ arc = <<1>>
    /\ data = <<>>
    /\ pc = "idle"
    /\ cur = 1
    /\ applied = <<<<>>>>
    /\ posted = <<<<Cmd("Resume", Zero)>>>>
    /\ batch = <<<<>>>>
    /\ pause_held = <<FALSE>>
    /\ ret = [id |-> 1, ok |-> TRUE]
    /\ calls = 0
    /\ callbacks = 0
    /\ solo = <<>>
    /\ dropped_at_begin = {}
    /\ removed = {}
    /\ rejected = {}
    /\ sfx_last = NoSfx
    /\ Backend_init
    /\ Ext_init

AppFade ==
    /\ calls < MaxFadeCalls
    /\ \E time \in {Zero, Q(1, 8), One} : Music_fade_out(1, time)

\* A data callback with a non-empty buffer begins.
BeginFade ==
    /\ \E n \in {1, MaxFadeData} : Mixer_enter([i \in 1..n |-> One])
    /\ UNCHANGED <<ext_vars, be_vars, channels, callbacks>>

CallbackFade ==
    \/ BeginFade
    \/ \E rate \in {2, 16} : Mixer_sample_rate(rate)
    \/ Mixer_render_music
    \/ Mixer_alive_music
    \/ Mixer_end

NextFade == AppFade \/ CallbackFade

\* WF_vars(Mixer_render_music) with its enabling condition written out: the
\* step is possible exactly when retain_mut has a renderer left to call.
FairRender ==
    \/ []<>~(pc = "render" /\ cur <= Len(renderers))
    \/ []<><<Mixer_render_music>>_vars

SpecFade ==
    /\ InitFade
    /\ [][NextFade]_vars
    /\ WF_vars(BeginFade)
    /\ FairRender
    /\ WF_vars(Mixer_alive_music)
    /\ WF_vars(Mixer_end)

(***************************************************************************)
(* SpecVoice: one sfx source whose handle is kept, the triggers it posts   *)
(* and the callbacks that render them, mono or stereo, at a stream rate    *)
(* equal to or twice the clip's.                                           *)
(***************************************************************************)
MaxVoiceData == 4        \* longest output buffer, in floats
MaxVoiceCalls == 3       \* calls of the application
MaxVoiceCallbacks == 2   \* callbacks started

InitVoice ==
    /\ sample_rate \in {1, 2}
    /\ channels \in {1, 2}
    /\ renderers = <<>>
    /\ mixer_cons = <<1>>
    /\ kind = <<"sfx">>
    /\ renderer \in {<<[clip |-> ClipA]>>, <<[clip |-> ClipS]>>}
    /\ cons = <<<<>>>>
    /\ cap = <<2>>
    /\ state = <<SharedState_default>>
    /\ arc = <<1>>
    /\ data = <<>>
    /\ pc = "idle"
    /\ cur = 1
    /\ applied = <<<<>>>>
    /\ posted = <<<<>>>>
    /\ batch = <<<<>>>>
    /\ pause_held = <<FALSE>>
    /\ ret = [id |-> 1, ok |-> TRUE]
    /\ calls = 0
    /\ callbacks = 0
    /\ solo = <<>>
    /\ dropped_at_begin = {}
    /\ removed = {}
    /\ rejected = {}
    /\ sfx_last = NoSfx
    /\ Backend_init
    /\ Ext_init

AppVoice ==
    /\ calls < MaxVoiceCalls
    /\ \E a \in {One, Half} : Sfx_play(1, a)

CallbackVoice ==
    \/ /\ callbacks < MaxVoiceCallbacks
       /\ \E n \in {2, 4, MaxVoiceData} : Mixer_begin([i \in 1..n |-> One])
    \/ Mixer_render_sfx
    \/ Mixer_alive_sfx_queue
    \/ Mixer_alive_sfx_marker
    \/ Mixer_end

NextVoice == AppVoice \/ CallbackVoice

SpecVoice == InitVoice /\ [][NextVoice]_vars

(***************************************************************************)
(* SpecClip: AudioClip::sample as a function.  The application makes a     *)
(* clip with from_raw, computes a position in f32 (a multiple of half a    *)
(* frame's duration, or the clip's length) and calls sample on it.         *)
(***************************************************************************)
MaxClipFrames == 13      \* frames of the longest clip

\* frames alternate between the left and the right channel
ClipOf(n, rate) ==
    [frames |-> [i \in 1..n |-> IF i % 2 = 1 THEN Frame(One, Zero)
                                ELSE Frame(Zero, One)],
     sample_rate |-> rate]
ProbeClips ==
    {ClipS, ClipB} \cup {ClipOf(n, rate) : n \in {0, 1, MaxClipFrames},
                                            rate \in {2, 11}}
\* i / rate, (i + 0.5) / rate and clip.length(), each as f32 computes it
ProbeTimes(c) ==
    {F32(Q(i, 2 * c.sample_rate)) : i \in 0..(2 * Len(c.frames) + 2)}
        \cup {AudioClip_length(c)}

InitClip == Init /\ sample_rate = 1 /\ channels = 1

\* AudioClip::from_raw, and the position the caller computes
Probe_choose ==
    /\ probe.called
    /\ \E c \in ProbeClips : \E t \in ProbeTimes(c) :
          probe' = [clip |-> c, t |-> t, out |-> None, called |-> FALSE]
    /\ UNCHANGED <<prog_vars, stretcher>>

\* clip.sample(t)
Probe_sample ==
    /\ ~probe.called
    /\ probe' = [probe EXCEPT !.out = AudioClip_sample(probe.clip, probe.t),
                              !.called = TRUE]
    /\ UNCHANGED <<prog_vars, stretcher>>

NextClip == Probe_choose \/ Probe_sample

SpecClip == InitClip /\ [][NextClip]_vars

(***************************************************************************)
(* SpecCallback: the manager was built on one of the three backends and    *)
(* one looping music source is playing; the platform calls the backend's   *)
(* data callback with buffers and timing information of its choosing.      *)
(***************************************************************************)
MaxCallbackData == 2        \* longest output buffer, in floats
MaxCallbackCallbacks == 3   \* callbacks started

\* After AudioManager::new(backend), create_music and play().
InitCallback ==
    /\ \E st \in {<<1, 1>>, <<2, 2>>} : sample_rate = st[1] /\ channels = st[2]
    /\ renderers = <<>>
    /\ mixer_cons = <<1>>
    /\ kind = <<"music">>
    /\ renderer = <<Music_new(ClipM, Settings(Zero, Half, 2))>>
    /\ cons = <<<<Cmd("Resume", Zero)>>>>
    /\ cap = <<2>>
    /\ state = <<SharedState_default>>
    /\ arc = <<1>>
    /\ data = <<>>
    /\ pc = "idle"
    /\ cur = 1
    /\ applied = <<<<>>>>
    /\ posted = <<<<Cmd("Resume", Zero)>>>>
    /\ batch = <<<<>>>>
    /\ pause_held = <<FALSE>>
    /\ ret = [id |-> 1, ok |-> TRUE]
    /\ calls = 0
    /\ callbacks = 0
    /\ solo = <<>>
    /\ dropped_at_begin = {}
    /\ removed = {}
    /\ rejected = {}
    /\ sfx_last = NoSfx
    /\ Backend_init
    /\ backend \in {"cpal", "oboe", "ohos"}
    /\ backend = "oboe" => channels = 2      \* set_channel_count::<Stereo>()
    /\ manager = NoManager
    /\ probe = NoProbe
    /\ stretcher = NoStretcher

\* cpal.rs 69-75, 82-88: the data callback; `duration_since` yields a delay or
\* None.
Cpal_data_callback ==
    /\ backend = "cpal"
    /\ \/ /\ callbacks < MaxCallbackCallbacks
          /\ \E b \in Buffers(MaxCallbackData) : Stream_callback(stream, b)
       \/ \E delay \in Delays : Callback_return(delay)
       \/ Mixer_end

\* oboe.rs 96-118: `calculate_latency_millis` is Ok(latency) or an error; the
\* push precedes the rendering.  `mixer.sample_rate = stream.get_sample_rate()`
\* stores the rate of the stream, which sample_rate holds already.
Oboe_on_audio_ready ==
    /\ backend = "oboe"
    /\ \/ /\ callbacks < MaxCallbackCallbacks
          /\ \E b \in Buffers(MaxCallbackData) : Mixer_enter(b)
          /\ callbacks' = callbacks + 1
          /\ cb_stream' = stream
          /\ \/ \E millis \in Delays : Rec_push(millis)
             \/ UNCHANGED <<rec, latency, pushed>>
          /\ UNCHANGED <<ext_vars, channels, broken, stream, streams, live,
                         start_pc, starts, raced, signalled>>
       \/ Mixer_end

\* ohos.rs 152-176: -1 without rendering for a buffer of no bytes; otherwise
\* render_mono or render_stereo on length / 4 floats.  The recorder is bound
\* to `_rec` and never used.
Ohos_on_write_data ==
    /\ backend = "ohos"
    /\ \/ /\ callbacks < MaxCallbackCallbacks
          /\ \E length \in {-4, 0, 4 * MaxCallbackData} :
                IF length <= 0
                THEN /\ pc = "idle"
                     /\ callbacks' = callbacks + 1
                     /\ UNCHANGED <<sample_rate, channels, renderers,
                                    mixer_cons, src_vars, data, pc, cur, solo,
                                    dropped_at_begin, removed, sfx_last, ret,
                                    calls, rejected, be_vars, ext_vars>>
                ELSE /\ Mixer_enter([i \in 1..(length \div 4) |-> One])
                     /\ callbacks' = callbacks + 1
                     /\ cb_stream' = stream
                     /\ UNCHANGED <<ext_vars, channels, broken, stream, streams,
                                    live, start_pc, starts, raced, rec, latency,
                                    pushed, signalled>>
       \/ Mixer_end

RenderCallback == Mixer_render_music \/ Mixer_alive_music

NextCallback ==
    Cpal_data_callback \/ Oboe_on_audio_ready \/ Ohos_on_write_data
        \/ RenderCallback

SpecCallback == InitCallback /\ [][NextCallback]_vars

(***************************************************************************)
(* SpecManager: AudioManager::new on one of the three backends of the      *)
(* crate, or on a Backend of the application's own ("custom"), then        *)
(* AudioManager::start; the platform opens and starts the stream or        *)
(* refuses to, and a running stream calls back.                            *)
(***************************************************************************)
MaxManagerStarts == 2      \* calls of Backend::start, the first included

Platform == {"ok", "open_refused", "start_refused"}

\* Backend::setup: the three backends store the state and return Ok(()).
Backend_setup_results(b) == IF b = "custom" THEN {"Ok", "Err"} ELSE {"Ok"}

\* Backend::start.  cpal: every failing step leaves through `?`.  oboe:
\* `.open_stream().unwrap()` panics, `stream.start()?` returns the error.
\* ohos: no return code of the OH_Audio* calls is read, and `Ok(())` follows.
Backend_start_results(b, platform) ==
    CASE b = "cpal" -> IF platform = "ok" THEN {"Ok"} ELSE {"Err"}
      [] b = "oboe" -> IF platform = "open_refused" THEN {"panic"}
                       ELSE IF platform = "start_refused" THEN {"Err"}
                       ELSE {"Ok"}
      [] b = "ohos" -> {"Ok"}
      [] OTHER -> {"Ok", "Err"}

\* Before AudioManager::new: Mixer::new(0, cons), no stream.
InitManager ==
    /\ sample_rate = 0
    /\ channels \in {1, 2}
    /\ renderers = <<>>
    /\ mixer_cons = <<>>
    /\ kind = <<>>
    /\ renderer = <<>>
    /\ cons = <<>>
    /\ cap = <<>>
    /\ state = <<>>
    /\ arc = <<>>
    /\ data = <<>>
    /\ pc = "idle"
    /\ cur = 1
    /\ applied = <<>>
    /\ posted = <<>>
    /\ batch = <<>>
    /\ pause_held = <<>>
    /\ ret = NoCall
    /\ calls = 0
    /\ callbacks = 0
    /\ solo = <<>>
    /\ dropped_at_begin = {}
    /\ removed = {}
    /\ rejected = {}
    /\ sfx_last = NoSfx
    /\ broken = FALSE
    /\ stream = 0
    /\ streams = <<>>
    /\ live = {}
    /\ start_pc = NoStart
    /\ starts = 0
    /\ raced = FALSE
    /\ cb_stream = 0
    /\ rec = LatencyRecorder_new
    /\ latency = Zero
    /\ pushed = <<>>
    /\ signalled = FALSE
    /\ backend \in {"cpal", "oboe", "ohos", "custom"}
    /\ backend = "oboe" => channels = 2
    /\ manager = [at |-> "new", setups |-> 0, starts |-> 0, result |-> "none",
                  refused |-> FALSE]
    /\ probe = NoProbe
    /\ stretcher = NoStretcher

\* new_box: `backend.setup(BackendSetup { .. })?`
New_box_setup ==
    /\ manager.at = "new"
    /\ \E r \in Backend_setup_results(backend) :
          manager' = [manager EXCEPT !.setups = @ + 1,
                                     !.at = IF r = "Ok" THEN "setup" ELSE "failed",
                                     !.result = IF r = "Ok" THEN "none" ELSE r]
    /\ UNCHANGED <<sample_rate, channels, renderers, mixer_cons, src_vars,
                   cb_vars, ret, calls, rejected, be_vars, backend, probe,
                   stretcher>>

\* What a call of Backend::start leaves in the backend: with result r on a
\* platform that opened and started the stream, the stream runs at `rate`
\* and replaces the one held; an ohos start the platform refused stores the
\* rate it was not given (0); nothing changes otherwise.
Backend_started(platform, r, rate) ==
    /\ starts' = starts + 1
    /\ IF r = "Ok" /\ platform = "ok"
       THEN /\ sample_rate' = rate
            /\ streams' = Append(streams, [channels |-> channels])
            /\ live' = {Len(streams) + 1}
            /\ stream' = Len(streams) + 1
       ELSE /\ sample_rate' = IF backend = "ohos" THEN 0 ELSE sample_rate
            /\ UNCHANGED <<streams, live, stream>>
    /\ UNCHANGED <<channels, renderers, mixer_cons, src_vars, cb_vars, ret,
                   calls, rejected, broken, start_pc, raced, cb_stream, rec,
                   latency, pushed, signalled, backend, probe, stretcher>>

\* new_box: `backend.start()?; Ok(Self { .. })`
New_box_start ==
    /\ manager.at = "setup"
    /\ \E platform \in Platform :
          \E r \in Backend_start_results(backend, platform) :
             /\ manager' = [manager EXCEPT
                               !.starts = @ + 1,
                               !.at = CASE r = "Ok" -> "built"
                                        [] r = "Err" -> "failed"
                                        [] OTHER -> "panicked",
                               !.result = r,
                               !.refused = (platform # "ok")]
             /\ \E rate \in {1, 2} : Backend_started(platform, r, rate)

\* AudioManager::start on the manager built: `self.backend.start()`
Manager_start ==
    /\ manager.at = "built"
    /\ pc = "idle"
    /\ manager.starts < MaxManagerStarts
    /\ \E platform \in Platform :
          \E r \in Backend_start_results(backend, platform) :
             /\ manager' = [manager EXCEPT
                               !.starts = @ + 1,
                               !.at = IF r = "panic" THEN "panicked" ELSE @,
                               !.result = r,
                               !.refused = (platform # "ok")]
             /\ \E rate \in {1, 2} : Backend_started(platform, r, rate)

\* The data callback of the stream the backend holds.
CallbackManager ==
    /\ manager.at = "built"
    /\ stream \in live
    /\ Cpal_data_callback \/ Oboe_on_audio_ready \/ Ohos_on_write_data

NextManager == New_box_setup \/ New_box_start \/ Manager_start \/ CallbackManager

SpecManager == InitManager /\ [][NextManager]_vars

(***************************************************************************)
(* Stretcher (renderer/stretcher.rs).  The buffers are modelled by their   *)
(* lengths: which samples the resynthesis writes does not bear on how many *)
(* windows are yielded.  A Stretcher value carries the build it runs in,   *)
(* because `input_buf.len() - sample_step_len` panics on underflow in a    *)
(* build with overflow checks and wraps in one without.                    *)
(***************************************************************************)
\* `hanning(8192)`: window.len()
WindowLen == 8192
HalfWindowLen == WindowLen \div 2

\* A faulty variant, for comparison: the step does not depend on the factor.
Stretcher_step_fixed(factor) == HalfWindowLen

\* `(window_len as f32 / (factor * 2.0)) as _`
Stretcher_step(factor) ==
    AsUsize(F32(RDiv(FromInt(WindowLen), F32(RMul(factor, FromInt(2))))))

\* A faulty variant, for comparison: len elements are removed from the front.
Truncate_front_removing(current, len) == IF len < current THEN current - len ELSE 0

\* SliceDeque::truncate_front(len): keeps the last len elements; no effect when
\* len is not less than the current length.
Truncate_front(current, len) == IF len < current THEN len ELSE current

\* Stretcher::new
Stretcher_new(input, factor, build) ==
    [made |-> TRUE, build |-> build, factor |-> factor, given |-> input,
     sample_step_len |-> Stretcher_step(factor),
     output_buf |-> HalfWindowLen, input_buf |-> input, done |-> FALSE,
     yielded |-> 0, nones |-> 0, window |-> 0, panicked |-> FALSE,
     underflowed |-> FALSE, stuck |-> FALSE]

Stretcher_ensure_input_samples_available(s, n) ==
    IF s.input_buf < n THEN [s EXCEPT !.input_buf = n, !.done = TRUE] ELSE s

\* `input_buf.truncate_front(input_buf.len() - sample_step_len)`: when the
\* difference underflows, a checked build panics and an unchecked one passes
\* the difference modulo 2^64, which exceeds every length.
Stretcher_drop_input(s) ==
    IF s.input_buf >= s.sample_step_len
    THEN [s EXCEPT !.input_buf =
                      Truncate_front(s.input_buf, s.input_buf - s.sample_step_len)]
    ELSE IF s.build = "debug"
    THEN [s EXCEPT !.panicked = TRUE, !.underflowed = TRUE]
    ELSE [s EXCEPT !.underflowed = TRUE]

\* One turn of the loop of next_window; `output_buf[iter_output_buf_pos + i]`
\* for i < half_window_len panics when the index is out of range.
Stretcher_turn(s, iter_output_buf_pos) ==
    IF iter_output_buf_pos + HalfWindowLen > s.output_buf
    THEN [s EXCEPT !.panicked = TRUE]
    ELSE Stretcher_drop_input(
            [s EXCEPT !.output_buf = @ + (WindowLen - HalfWindowLen)])

\* `while output_buf.len() < samples_needed_per_window + half_window_len`
RECURSIVE Stretcher_loop(_, _)
Stretcher_loop(s, iter_output_buf_pos) ==
    IF s.panicked \/ ~(s.output_buf < WindowLen + HalfWindowLen) THEN s
    ELSE Stretcher_loop(
            Stretcher_turn(
                Stretcher_ensure_input_samples_available(s, WindowLen),
                iter_output_buf_pos),
            iter_output_buf_pos + HalfWindowLen)

\* After the loop: `output_buf[..samples_needed_per_window].to_vec()`, then
\* `output_buf.truncate_front(half_window_len)`.
Stretcher_result(l) ==
    IF l.panicked THEN l
    ELSE IF l.output_buf < WindowLen THEN [l EXCEPT !.panicked = TRUE]
    ELSE [l EXCEPT !.window = WindowLen, !.yielded = @ + 1,
                   !.output_buf = Truncate_front(@, HalfWindowLen)]

Stretcher_next_window(s) == Stretcher_result(Stretcher_loop(s, 0))

\* Iterator::next, with the history of it: stuck records a call that returned
\* a window and left the Stretcher as it had found it.
Stretcher_next(s) ==
    IF s.done THEN [s EXCEPT !.nones = @ + 1, !.window = 0]
    ELSE [Stretcher_next_window(s) EXCEPT
             !.stuck = (/\ ~Stretcher_next_window(s).panicked
                        /\ ~Stretcher_next_window(s).done
                        /\ Stretcher_next_window(s).input_buf = s.input_buf
                        /\ Stretcher_next_window(s).output_buf = s.output_buf)]

(***************************************************************************)
(* SpecStretch: a Stretcher is made over an input of some length with some *)
(* factor and iterated until it has returned None twice.                   *)
(***************************************************************************)
MaxInputWindows == 10      \* longest input, in windows
MaxWindows == 40           \* windows yielded

InputLens ==
    {0, 1, WindowLen - 1, WindowLen, WindowLen + 1, 2 * WindowLen + 5,
     3 * WindowLen + 2047, MaxInputWindows * WindowLen}
Factors == {Q(1, 4), Half, One, Q(3, 2), FromInt(2), FromInt(3), FromInt(4),
            FromInt(WindowLen)}

InitStretch == Init /\ sample_rate = 1 /\ channels = 1

Stretch_new ==
    /\ ~stretcher.made
    /\ \E input \in InputLens, factor \in Factors, build \in {"debug", "release"} :
          stretcher' = Stretcher_new(input, factor, build)
    /\ UNCHANGED <<prog_vars, probe>>

Stretch_next ==
    /\ stretcher.made
    /\ ~stretcher.panicked
    /\ stretcher.yielded < MaxWindows
    /\ stretcher.nones < 2
    /\ stretcher' = Stretcher_next(stretcher)
    /\ UNCHANGED <<prog_vars, probe>>

NextStretch == Stretch_new \/ Stretch_next

SpecStretch == InitStretch /\ [][NextStretch]_vars

(***************************************************************************)
(* SpecLoop: one looping music source on the four-frame clip, played; its  *)
(* handle pauses, plays, seeks, fades out and sets the low-pass, and       *)
(* callbacks longer than the clip render it while the driver may change    *)
(* the sample rate between callbacks.                                      *)
(***************************************************************************)
MaxLoopData == 6         \* longest output buffer, in floats
MaxLoopCalls == 2        \* calls of the application
MaxLoopCallbacks == 2    \* audio callbacks

\* After create_music and play(), before the first callback.
InitLoop ==
    /\ sample_rate \in {2, 4}
    /\ channels \in {1, 2}
    /\ renderers = <<>>
    /\ mixer_cons = <<1>>
    /\ kind = <<"music">>
    /\ \E mix \in {Zero, Half} :
          renderer = <<Music_new(ClipS, Settings(mix, Half, 2))>>
    /\ cons = <<<<Cmd("Resume", Zero)>>>>
    /\ cap = <<2>>
    /\ state = <<SharedState_default>>
    /\ arc = <<1>>
    /\ data = <<>>
    /\ pc = "idle"
    /\ cur = 1
    /\ applied = <<<<>>>>
    /\ posted = <<<<Cmd("Resume", Zero)>>>>
    /\ batch = <<<<>>>>
    /\ pause_held = <<FALSE>>
    /\ ret = [id |-> 1, ok |-> TRUE]
    /\ calls = 0
    /\ callbacks = 0
    /\ solo = <<>>
    /\ dropped_at_begin = {}
    /\ removed = {}
    /\ rejected = {}
    /\ sfx_last = NoSfx
    /\ Backend_init
    /\ Ext_init

AppLoop ==
    /\ calls < MaxLoopCalls
    /\ \/ Music_play(1)
       \/ Music_pause(1)
       \/ \E position \in {Q(3, 2), FromInt(2)} : Music_seek_to(1, position)
       \/ Music_fade_out(1, One)
       \/ Music_set_low_pass(1, Half)

CallbackLoop ==
    \/ /\ callbacks < MaxLoopCallbacks
       /\ \E n \in {2, MaxLoopData} : Mixer_begin([i \in 1..n |-> One])
    \/ \E rate \in {2, 4} : Mixer_sample_rate(rate)
    \/ Mixer_render_music
    \/ Mixer_alive_music
    \/ Mixer_end

NextLoop == AppLoop \/ CallbackLoop

SpecLoop == InitLoop /\ [][NextLoop]_vars

(***************************************************************************)
(* SpecCreated: one music source just created (looping or not), whose      *)
(* handle posts every kind of command, rendered by callbacks while the     *)
(* driver may change the sample rate between callbacks.                    *)
(***************************************************************************)
MaxCreatedData == 6         \* longest output buffer, in floats
MaxCreatedCalls == 2        \* calls of the application
MaxCreatedCallbacks == 2    \* audio callbacks

\* After create_music, before the first call of the handle and the first
\* callback.
InitCreated ==
    /\ sample_rate \in {2, 4}
    /\ channels \in {1, 2}
    /\ renderers = <<>>
    /\ mixer_cons = <<1>>
    /\ kind = <<"music">>
    /\ \E mix \in {FromInt(-1), Half} :
          renderer = <<Music_new(ClipS, Settings(mix, Half, 2))>>
    /\ cons = <<<<>>>>
    /\ cap = <<2>>
    /\ state = <<SharedState_default>>
    /\ arc = <<1>>
    /\ data = <<>>
    /\ pc = "idle"
    /\ cur = 1
    /\ applied = <<<<>>>>
    /\ posted = <<<<>>>>
    /\ batch = <<<<>>>>
    /\ pause_held = <<FALSE>>
    /\ ret = [id |-> 1, ok |-> TRUE]
    /\ calls = 0
    /\ callbacks = 0
    /\ solo = <<>>
    /\ dropped_at_begin = {}
    /\ removed = {}
    /\ rejected = {}
    /\ sfx_last = NoSfx
    /\ Backend_init
    /\ Ext_init

AppCreated ==
    /\ calls < MaxCreatedCalls
    /\ \/ Music_play(1)
       \/ Music_pause(1)
       \/ Music_set_amplifier(1, One)
       \/ \E position \in {Half, One} : Music_seek_to(1, position)
       \/ Music_set_low_pass(1, Half)
       \/ Music_fade_in(1, One)
       \/ Music_fade_out(1, One)

CallbackCreated ==
    \/ /\ callbacks < MaxCreatedCallbacks
       /\ \E n \in {2, MaxCreatedData} : Mixer_begin([i \in 1..n |-> One])
    \/ \E rate \in {2, 4} : Mixer_sample_rate(rate)
    \/ Mixer_render_music
    \/ Mixer_alive_music
    \/ Mixer_end

NextCreated == AppCreated \/ CallbackCreated

SpecCreated == InitCreated /\ [][NextCreated]_vars

(***************************************************************************)
(* Properties.                                                             *)
(***************************************************************************)
InSeq(x, q) == \E i \in 1..Len(q) : q[i] = x
MusicIds == {id \in Ids : kind[id] = "music"}
SfxIds == {id \in Ids : kind[id] = "sfx"}

\* C1: at every point of a mixer callback, and after it, the output buffer
\* holds the sum of what each source rendered so far adds when rendered alone
\* into an all-zero buffer of the same length: nothing of the buffer's previous
\* contents survives, and when no source was ever in the list it is all zeros.
C1_MixIsSumOfSources ==
    /\ data = solo
    /\ (renderers = <<>> /\ removed = {}) => data = Zeros(Len(data))

\* A callback of a mono stream at rate 1 has mixed a playing music source
\* (amplifier 1/2) and a triggered sfx (amplifier 1) on ClipA: 1/4 + 1/2.
C1_Witness ==
    /\ pc = "idle"
    /\ Len(renderers) = 2
    /\ Len(data) = 2
    /\ data[1] = Q(3, 4)

\* C2: when a callback has returned, no source whose Music handle was already
\* dropped when that callback began is in the mixer's source list.
C2_DroppedMusicIsPruned ==
    pc = "idle" =>
        \A id \in dropped_at_begin \cap MusicIds : ~InSeq(id, renderers)

\* The handle was dropped with Resume pending and AddRenderer not drained; the
\* callback added the renderer, rendered it playing, and removed it.
C2_Witness ==
    /\ pc = "idle"
    /\ 1 \in dropped_at_begin
    /\ 1 \in removed
    /\ ~renderer[1].paused
    /\ renderer[1].index > 0

\* C3: an SfxRenderer is removed from the mixer only when every trigger that
\* Sfx.play() accepted has been rendered to the end of its clip, i.e. with
\* nothing left in its queue.
C3_TriggersRenderedBeforePrune ==
    \A id \in removed \cap SfxIds : cons[id] = <<>>

\* C4: the entries a SfxRenderer callback removes are exactly the entries it
\* found exhausted; they are the oldest entries of the queue, none of them has a
\* frame left, and the others stay in their order.
C4_SfxPopsExhaustedPrefix ==
    LET n == Len(sfx_last.walked)
        k == sfx_last.pop_count
    IN  /\ sfx_last.exhausted = 1..k
        /\ k <= n
        /\ sfx_last.after = [j \in 1..(n - k) |-> sfx_last.walked[j + k]]
        /\ sfx_last.id # 0 =>
              \A i \in 1..k :
                 ~AudioClip_sample(renderer[sfx_last.id].clip,
                                   sfx_last.walked[i].position).ok

\* The older of two voices was found exhausted and removed, the newer stays.
C4_Witness ==
    /\ sfx_last.pop_count = 1
    /\ Len(sfx_last.walked) = 2
    /\ Len(sfx_last.after) = 1

\* C5: the queue of a Music handle holds exactly the accepted commands that no
\* render has taken yet, in post order; a render applies all of them, in that
\* order and each once, before it renders (also when paused), and when the last
\* of them is a Pause the renderer is left paused.
C5_CommandsAppliedInOrder ==
    \A id \in MusicIds :
        /\ posted[id] = cons[id]
        /\ applied[id] = batch[id]
        /\ (applied[id] # <<>> /\ applied[id][Len(applied[id])].op = "Pause")
              => /\ renderer[id].paused
                 /\ arc[id] > 0 => Music_paused(id)

\* A paused renderer applied a batch of two different commands, SeekTo first.
C5_Witness ==
    /\ Len(applied[1]) = 2
    /\ applied[1][1].op = "SeekTo"
    /\ applied[1][2].op = "SetAmplifier"
    /\ renderer[1].paused
    /\ renderer[1].index > 0
    /\ renderer[1].amplifier = One

\* A step that is a post through the handle of source id.
C6_PostStep(id) ==
    /\ calls' = calls + 1
    /\ Len(kind') = Len(kind)
    /\ arc' = arc
    /\ ret'.id = id

\* C6: a post through a Music or Sfx handle returns an error exactly when the
\* handle's queue holds `capacity` entries; then the queue is left as it was;
\* otherwise the entry is appended behind the entries already queued.
C6_PostFailsIffFull ==
    [][\A id \in Ids :
          C6_PostStep(id) =>
             /\ ~ret'.ok <=> Len(cons[id]) = cap[id]
             /\ ~ret'.ok => cons'[id] = cons[id]
             /\ ret'.ok => /\ Len(cons'[id]) = Len(cons[id]) + 1
                           /\ SubSeq(cons'[id], 1, Len(cons[id])) = cons[id]]_vars

\* A post has just failed on a full queue.
C6_Witness ==
    /\ ret.id # 0
    /\ ~ret.ok
    /\ Len(cons[ret.id]) = cap[ret.id]
    /\ arc[ret.id] > 0

\* The pending commands and the source list, and the steps that change them.
C7_State ==
    /\ Len(mixer_cons) <= 16
    /\ \A id \in rejected : ~InSeq(id, renderers) /\ ~InSeq(id, mixer_cons)
    /\ LET all == renderers \o mixer_cons
       IN  \A i, j \in 1..Len(all) : i < j => all[i] < all[j]
    /\ \A id \in Ids \ rejected :
          \/ InSeq(id, mixer_cons)
          \/ InSeq(id, renderers)
          \/ id \in removed /\ arc[id] = 0

C7_Step ==
    /\ Len(kind') = Len(kind) + 1 =>
          LET id == Len(kind')
          IN  /\ ~ret'.ok <=> Len(mixer_cons) = 16
              /\ ~ret'.ok => /\ mixer_cons' = mixer_cons
                             /\ renderers' = renderers
                             /\ id \in rejected'
              /\ ret'.ok => mixer_cons' = Append(mixer_cons, id)
    /\ callbacks' = callbacks + 1 =>
          /\ renderers' = renderers \o mixer_cons
          /\ mixer_cons' = <<>>

\* C7: create_music fails exactly when 16 AddRenderer commands are pending; a
\* failed call leaves the pending commands and the source list as they were and
\* its source is never pending nor listed; every callback appends all pending
\* sources behind the listed ones, so that sources are listed in submission
\* order, and a source whose call returned Ok is pending or listed until
\* retain_mut removes it with its handle dropped.
C7_AddRenderer == [](C7_State) /\ [][C7_Step]_vars

\* The 17th create_music failed on 16 pending commands; a callback listed the
\* 16, the 18th call succeeded and the next callback listed it behind them.
C7_Witness ==
    /\ 17 \in rejected
    /\ Len(renderers) = 17
    /\ renderers[16] = 16
    /\ renderers[17] = 18

\* C8: after a callback, while the Music handle exists, Music.paused() equals the
\* renderer's own paused flag (in particular it is true once a non-looping clip
\* has run out during the callback).
C8_PausePublished ==
    pc = "idle" =>
        \A id \in MusicIds : arc[id] > 0 => Music_paused(id) = renderer[id].paused

\* C9: Pause applied to a renderer on which Pause was just applied changes
\* nothing; and from the render that applied a Pause until one that applies a
\* Resume or FadeIn, the renderer is paused, Music.paused() is true and the
\* source adds nothing to the buffer.
C9_PauseIdempotent ==
    \A id \in MusicIds :
        /\ LET p == Cmd_pause(Music_of(id))
           IN  /\ Cmd_pause(p) = p
               /\ p.paused
               /\ p.strong > 0 => p.state.paused
        /\ pause_held[id] =>
              /\ renderer[id].paused
              /\ arc[id] > 0 => Music_paused(id)
              /\ solo = Zeros(Len(solo))

\* The source played in one callback; the next applied Pause twice and added
\* nothing to a non-empty buffer.
C9_Witness ==
    /\ callbacks = 2
    /\ pc = "idle"
    /\ Len(applied[1]) = 2
    /\ applied[1][1].op = "Pause"
    /\ applied[1][2].op = "Pause"
    /\ renderer[1].index > 0
    /\ Len(data) > 0
    /\ Music_paused(1)

\* C10: a music source whose handle exists has never been removed by
\* retain_mut: it is in the mixer's list, or still pending in the command queue.
C10_MusicKeptWhileHandle ==
    \A id \in MusicIds :
        arc[id] > 0 =>
            /\ id \notin removed
            /\ InSeq(id, renderers) \/ InSeq(id, mixer_cons)

\* After two callbacks the source has played, is paused again (its clip ended
\* or its fade-out completed), and is still listed.
C10_Witness ==
    /\ callbacks = 2
    /\ pc = "idle"
    /\ arc[1] > 0
    /\ renderer[1].paused
    /\ renderer[1].index > 0
    /\ InSeq(1, renderers)

\* C11: an SfxRenderer that retain_mut has removed had its Sfx handle dropped
\* and has an empty queue: while the handle exists or a trigger is queued the
\* renderer stays in the mixer.
C11_SfxKeptWhileAlive ==
    \A id \in SfxIds :
        id \in removed => arc[id] = 0 /\ cons[id] = <<>>

\* C12: no two threads are ever inside the StateCell (the mixer and the
\* latency recorder) at once: the application thread never writes the mixer
\* while a data callback is inside it, no data callback begins while the
\* callback of another stream is inside it, and at most one stream is playing.
C12_ExclusiveAccess ==
    /\ ~raced
    /\ Cardinality(live) <= 1

RECURSIVE SumTo(_, _, _)
SumTo(q, lo, hi) ==
    IF lo > hi THEN Zero
    ELSE IF lo = hi THEN q[lo]
    ELSE RAdd(SumTo(q, lo, (lo + hi) \div 2), SumTo(q, (lo + hi) \div 2 + 1, hi))
Recent(k) == IF k < LATENCY_RECORD_NUM THEN k ELSE LATENCY_RECORD_NUM
Slot(j) == ((j - 1) % LATENCY_RECORD_NUM) + 1

\* C13: after k pushes the recorder's sum is the sum of its ring, the ring
\* holds the most recent min(k, 64) delays (a later push displaces the one 64
\* before it), and the published value is their arithmetic mean; the pushes
\* 0.01, 0.02, 0.03 publish 0.02.
C13_LatencyMean ==
    LET k == Len(pushed)
    IN  /\ rec.sum = SumTo(rec.records, 1, LATENCY_RECORD_NUM)
        /\ \A j \in (k - Recent(k) + 1)..k : rec.records[Slot(j)] = pushed[j]
        /\ k >= 1 =>
              AudioManager_estimate_latency =
                  RDiv(SumTo(pushed, k - Recent(k) + 1, k), FromInt(Recent(k)))
        /\ pushed = <<Q(1, 100), Q(2, 100), Q(3, 100)>> =>
              AudioManager_estimate_latency = Q(2, 100)

\* The 65th push has displaced a first sample that differs from it, after the
\* pushes 0.01, 0.02, 0.03.
C13_Displaced ==
    /\ Len(pushed) = LATENCY_RECORD_NUM + 1
    /\ SubSeq(pushed, 1, 3) = <<Q(1, 100), Q(2, 100), Q(3, 100)>>
    /\ pushed[LATENCY_RECORD_NUM + 1] = Q(2, 100)
    /\ rec.records[1] = Q(2, 100)
    /\ rec.head = 1 /\ rec.full
    /\ AudioManager_estimate_latency =
          RDiv(SumTo(pushed, 2, LATENCY_RECORD_NUM + 1), FromInt(LATENCY_RECORD_NUM))

\* C14: consume_broken() returns the flag and clears it in one step: the flag
\* is set exactly while the backend has set it and no call has returned true
\* since, so the next call returns true; a call returns true only then, and
\* leaves nothing for the calls after it until the backend sets the flag again.
C14_ConsumeBroken ==
    /\ [](signalled = broken)
    /\ [][AudioManager_consume_broken =>
             /\ ret'.value = signalled
             /\ ~signalled'
             /\ ~broken']_vars

\* consume_broken() has returned true and cleared the flag.
C14_Consumed ==
    /\ "value" \in DOMAIN ret
    /\ ret.value
    /\ ~broken
    /\ ~signalled
    /\ calls >= 1

\* C15: recover_if_needed() enters Backend::start once when the flag was set
\* and not at all, returning Ok, when it was not; no step of Backend::start
\* changes the mixer's source list, a source's fields and position or a
\* command queue, so the stream it plays renders from the state left before.
C15_Recover ==
    [][/\ AudioManager_recover_if_needed =>
            IF signalled
            THEN starts' = starts + 1 /\ start_pc'.at = "entered"
            ELSE starts' = starts /\ start_pc'.at = "none" /\ ret'.ok
       /\ (start_pc.at # "none" /\ start_pc' # start_pc) =>
            /\ starts' = starts
            /\ UNCHANGED <<renderers, mixer_cons, renderer, cons, state, kind>>]_vars

\* The stream played by recover_if_needed's start() is inside its second
\* callback, rendering the source the first stream rendered before.
C15_Restarted ==
    /\ start_pc.by = "recover_if_needed"
    /\ cb_stream = 2
    /\ callbacks = 2
    /\ pc = "alive"
    /\ renderers = <<1>>
    /\ ~renderer[1].paused

(***************************************************************************)
(* What a render step of music source 1 is compared with.  All of it is    *)
(* read in the state before the step, where the buffer is zero-filled:     *)
(* frame k of the callback is taken at frame index i0 + k - 1.             *)
(***************************************************************************)
PlayFrames == IF channels = 2 THEN Len(data) \div 2 ELSE Len(data)
FrameOf(j) == IF channels = 2 THEN (j + 1) \div 2 ELSE j
Channel(f, j) == IF channels = 2 THEN f[2 - (j % 2)] ELSE Frame_avg(f)
PlayPosition(i0, k) ==
    RDiv(RMul(FromInt(i0 + k - 1), renderer[1].playback_rate),
         FromInt(sample_rate))
PlaySample(i0, k) == AudioClip_sample(renderer[1].clip, PlayPosition(i0, k))
\* The frames added: those before the first one the clip does not have, and at
\* most `stop` of them.
PlayCount(i0, stop) ==
    Cardinality({n \in 1..PlayFrames :
                    n <= stop /\ \A h \in 1..n : PlaySample(i0, h).ok})
Played(i0, gain, stop) ==
    [j \in 1..Len(data) |->
        IF FrameOf(j) <= PlayCount(i0, stop)
        THEN RAdd(data[j], RMul(Channel(PlaySample(i0, FrameOf(j)).frame, j),
                                gain[FrameOf(j)]))
        ELSE data[j]]
Rendering == pc = "render" /\ renderers = <<1>> /\ cur = 1

\* C16: a render step of a playing non-looping source with low-pass 0 and no
\* fade adds clip.sample((index + k - 1) * playback_rate / sr) * amplifier to
\* the k-th frame (mono: the average of its channels) for as long as the clip
\* has a sample, and leaves index advanced by the frames added; three stereo
\* frames of the four-frame clip at sr = 2 are [0.5, 0, 0, 0.5, -0.5, 0].
C16_Playback ==
    [][(/\ Rendering
        /\ pc' = "alive"
        /\ RLt(renderer[1].loop_mix_time, Zero)
        /\ renderer[1].low_pass = Zero
        /\ renderer[1].fade_time = 0
        /\ renderer[1].last_sample_rate = sample_rate \/ renderer[1].index = 0
        /\ \/ ~renderer[1].paused /\ cons[1] = <<>>
           \/ cons[1] = <<Cmd("Resume", Zero)>>)
       => /\ data' = Played(renderer[1].index,
                            [k \in 1..PlayFrames |-> renderer[1].amplifier],
                            PlayFrames)
          /\ renderer'[1].index =
                renderer[1].index + PlayCount(renderer[1].index, PlayFrames)
          /\ (/\ renderer[1].index = 0
              /\ renderer[1].playback_rate = One
              /\ renderer[1].amplifier = Half
              /\ sample_rate = 2
              /\ channels = 2
              /\ Len(data) = 6)
             => data' = <<Half, Zero, Zero, Half, RNeg(Half), Zero>>]_vars

\* The first callback has rendered the three stereo frames at sr = 2.
C16_ThreeFrames ==
    /\ pc = "alive"
    /\ callbacks = 1
    /\ sample_rate = 2
    /\ channels = 2
    /\ renderer[1].playback_rate = One
    /\ renderer[1].index = 3
    /\ ~renderer[1].paused
    /\ data = <<Half, Zero, Zero, Half, RNeg(Half), Zero>>

\* The position of the last SeekTo among the pending commands q.
LastSeek(q) ==
    q[CHOOSE i \in 1..Len(q) :
        /\ q[i].op = "SeekTo"
        /\ \A j \in (i + 1)..Len(q) : q[j].op # "SeekTo"].v
\* round(p * sr / playback_rate)
SeekIndex(p) ==
    RoundAsUsize(RDiv(RMul(p, FromInt(sample_rate)), renderer[1].playback_rate))
Within(a, b, h) == RLe(RSub(a, b), h) /\ RLe(RSub(b, a), h)

\* C17: a render step whose pending commands are SeekTo(p), possibly with a
\* Resume or another SeekTo, leaves the batch with index = round(p * sr /
\* playback_rate) for the last p, whatever the index and the last-seen rate
\* were; that index is within half an output frame of p, and the frames of the
\* callback are the clip's samples from it on. After the three frames of C16,
\* SeekTo(1.0) and two stereo frames at sr = 2 give [-0.5, 0, 0, -0.5].
C17_SeekTo ==
    [][(/\ Rendering
        /\ pc' = "alive"
        /\ renderer[1].fade_time = 0
        /\ \E i \in 1..Len(cons[1]) : cons[1][i].op = "SeekTo"
        /\ \A i \in 1..Len(cons[1]) : cons[1][i].op \in {"SeekTo", "Resume"})
       => /\ Within(PlayPosition(SeekIndex(LastSeek(cons[1])), 1),
                    LastSeek(cons[1]),
                    RDiv(PlayPosition(1, 1), FromInt(2)))
          /\ IF renderer[1].paused /\ \A i \in 1..Len(cons[1]) : cons[1][i].op # "Resume"
             THEN /\ data' = data
                  /\ renderer'[1].index = SeekIndex(LastSeek(cons[1]))
             ELSE /\ data' = Played(SeekIndex(LastSeek(cons[1])),
                                    [k \in 1..PlayFrames |-> renderer[1].amplifier],
                                    PlayFrames)
                  /\ renderer'[1].index =
                        SeekIndex(LastSeek(cons[1]))
                        + PlayCount(SeekIndex(LastSeek(cons[1])), PlayFrames)
          /\ (/\ cons[1] = <<Cmd("SeekTo", One)>>
              /\ ~renderer[1].paused
              /\ renderer[1].index = 3
              /\ renderer[1].playback_rate = One
              /\ sample_rate = 2
              /\ channels = 2
              /\ Len(data) = 4)
             => data' = <<RNeg(Half), Zero, Zero, RNeg(Half)>>]_vars

\* The second callback has rendered two stereo frames from SeekTo(1.0), after
\* the first had played three frames.
C17_Sought ==
    /\ pc = "alive"
    /\ callbacks = 2
    /\ batch[1] = <<Cmd("SeekTo", One)>>
    /\ sample_rate = 2
    /\ channels = 2
    /\ renderer[1].playback_rate = One
    /\ renderer[1].last_sample_rate = 2
    /\ renderer[1].index = 4
    /\ data = <<RNeg(Half), Zero, Zero, RNeg(Half)>>

\* The gain of the k-th frame of a callback that starts i frames into a fade-in
\* of n frames: amplifier * (i + k) / n, the full amplifier from frame n on.
FadeInGain(n, i, k) ==
    IF i + k >= n THEN renderer[1].amplifier
    ELSE RMul(renderer[1].amplifier, Q(i + k, n))
\* A render step i frames into a fade-in of n frames.
FadeInStep(n, i) ==
    /\ data' = Played(renderer[1].index,
                      [k \in 1..PlayFrames |-> FadeInGain(n, i, k)], PlayFrames)
    /\ state'[1].paused = FALSE
    /\ renderer'[1].paused = (PlayCount(renderer[1].index, PlayFrames) < PlayFrames)
    /\ IF /\ PlayCount(renderer[1].index, PlayFrames) >= 1
          /\ i + PlayCount(renderer[1].index, PlayFrames) >= n
       THEN renderer'[1].fade_time = 0
       ELSE /\ renderer'[1].fade_time = n
            /\ renderer'[1].fade_current =
                  i + PlayCount(renderer[1].index, PlayFrames)

C20_RateChange ==
    [][(/\ Rendering
        /\ pc' = "alive"
        /\ cons[1] = <<>>
        /\ ~renderer[1].paused
        /\ renderer[1].fade_time = 0
        /\ renderer[1].last_sample_rate # sample_rate
        /\ Music_position(1) =
              RDiv(RMul(FromInt(renderer[1].index), renderer[1].playback_rate),
                   FromInt(renderer[1].last_sample_rate)))
       => \E i \in 0..(4 * renderer[1].index + 1) :
             /\ Within(PlayPosition(i, 1), Music_position(1), PlayPosition(1, 1))
             /\ data' = Played(i, [k \in 1..PlayFrames |-> renderer[1].amplifier],
                               PlayFrames)
             /\ renderer'[1].index = i + PlayCount(i, PlayFrames)
             /\ renderer'[1].paused = (PlayCount(i, PlayFrames) < PlayFrames)
             /\ renderer'[1].last_sample_rate = sample_rate]_vars

\* Three stereo frames at sr = 2, then two at sr = 4: the second callback has
\* rendered from index 6 (1.5 s), where the first had stopped.
C20_Rescaled ==
    /\ pc = "alive"
    /\ callbacks = 2
    /\ channels = 2
    /\ batch[1] = <<>>
    /\ renderer[1].playback_rate = One
    /\ renderer[1].last_sample_rate = 4
    /\ renderer[1].index = 8
    /\ Music_position(1) = FromInt(2)
    /\ ~renderer[1].paused

\* The gain of the k-th frame of a callback that starts i frames into a
\* fade-out of n frames.
FadeOutGain(n, i, k) == RMul(renderer[1].amplifier, RSub(One, Q(i + k, n)))
\* A render step i < n frames into a fade-out of n frames, the clip having a
\* sample for each of the frames up to the n-th: n - i - 1 more frames are
\* added, and the callback that reaches the n-th pauses the source.
FadeOutStep(n, i) ==
    (\A h \in 1..PlayFrames : h <= n - i => PlaySample(renderer[1].index, h).ok)
    => /\ data' = Played(renderer[1].index,
                         [k \in 1..PlayFrames |-> FadeOutGain(n, i, k)],
                         n - i - 1)
       /\ IF PlayFrames >= n - i
          THEN /\ renderer'[1].paused
               /\ state'[1].paused
               /\ renderer'[1].fade_time = 0
               /\ renderer'[1].index = renderer[1].index + n - i
          ELSE /\ ~renderer'[1].paused
               /\ renderer'[1].fade_time = -n
               /\ renderer'[1].fade_current = -(i + PlayFrames)
               /\ renderer'[1].index = renderer[1].index + PlayFrames
\* The pending commands q end with a FadeOut, after nothing but Resume and
\* FadeOut, and leave the source playing.
FadeOutLast(q) ==
    /\ q # <<>>
    /\ q[Len(q)].op = "FadeOut"
    /\ \A i \in 1..Len(q) : q[i].op \in {"Resume", "FadeOut"}
    /\ ~renderer[1].paused \/ \E i \in 1..Len(q) : q[i].op = "Resume"
\* A fade-out is under way and nothing is pending that could change it.
FadingOut ==
    /\ ~renderer[1].paused
    /\ renderer[1].fade_time < 0
    /\ cons[1] = <<>>
    /\ renderer[1].last_sample_rate = sample_rate

VoiceAt(e, k) ==
    AudioClip_sample(renderer[1].clip, RAdd(e.position, Q(k - 1, sample_rate)))
\* The voice still sounds at frame k: the clip had a sample for every frame so far.
VoiceSounds(e, k) == \A h \in 1..k : VoiceAt(e, h).ok
\* The sum over the voices of q of what each adds to the float j of the buffer.
RECURSIVE VoiceSum(_, _)
VoiceSum(q, j) ==
    IF q = <<>> THEN Zero
    ELSE RAdd(IF VoiceSounds(Head(q), FrameOf(j))
              THEN RMul(Channel(VoiceAt(Head(q), FrameOf(j)).frame, j),
                        Head(q).amplifier)
              ELSE Zero,
              VoiceSum(Tail(q), j))
\* The voice as the callback leaves it when the buffer ended before the clip.
VoiceResumed(e) ==
    Entry(RAdd(e.position, Q(PlayFrames, sample_rate)), e.amplifier)
RECURSIVE VoicesLeft(_)
VoicesLeft(q) ==
    IF q = <<>> THEN <<>>
    ELSE IF VoiceSounds(Head(q), PlayFrames)
         THEN <<VoiceResumed(Head(q))>> \o VoicesLeft(Tail(q))
         ELSE VoicesLeft(Tail(q))
\* A render step of the sfx source.
Voicing == pc = "render" /\ renderers = <<1>> /\ cur = 1 /\ kind[1] = "sfx"

\* C21: a trigger Sfx::play accepted joins the queue at position 0; a render
\* step adds to every output frame, for every queued voice whose clip still has
\* a sample there, that sample (mono: its average) times the voice's amplifier,
\* the clip being sampled 1/sr further per frame; the voices add up; a voice the
\* buffer ended on stays queued at its position + frames/sr and the others leave
\* the queue.  Two triggers of amplifier 1 on the 2-frame clip of rate 1, mono
\* buffer of 4 at sr = 1: [2 avg(clip[0]), 2 avg(clip[1]), 0, 0], queue empty.
C21_SfxVoices ==
    /\ [][(pc' = pc /\ calls' = calls + 1 /\ ret'.ok)
          => \E a \in {One, Half} : cons'[1] = Append(cons[1], Entry(Zero, a))]_vars
    /\ [][(Voicing /\ pc' = "alive")
          => /\ data' = [j \in 1..Len(data) |->
                            IF FrameOf(j) <= PlayFrames
                            THEN RAdd(data[j], VoiceSum(cons[1], j))
                            ELSE data[j]]
             /\ cons'[1] = VoicesLeft(cons[1])
             /\ (/\ cons[1] = <<Entry(Zero, One), Entry(Zero, One)>>
                 /\ renderer[1].clip = ClipA
                 /\ sample_rate = 1 /\ channels = 1 /\ Len(data) = 4)
                => /\ data' = <<RMul(FromInt(2), Frame_avg(ClipA.frames[1])),
                                RMul(FromInt(2), Frame_avg(ClipA.frames[2])),
                                Zero, Zero>>
                   /\ cons'[1] = <<>>]_vars

\* Two voices of different age sound together at sr = 2 on the clip of rate 1:
\* the callback added both and left both queued, half a second apart.
C21_TwoVoices ==
    /\ pc = "alive"
    /\ sample_rate = 2
    /\ renderer[1].clip = ClipA
    /\ Len(cons[1]) = 2
    /\ cons[1][1].position = One
    /\ cons[1][2].position = Half
    /\ \E j \in 1..Len(data) : RLt(One, data[j])

\* What sample(t) computes first, `position * self.0.sample_rate as f32`, as
\* the f32 product and as the product of the reals.
ProbeX == F32(RMul(probe.t, FromInt(probe.clip.sample_rate)))
ProbeXReal == RMul(probe.t, FromInt(probe.clip.sample_rate))
Floor(a) == a[1] \div a[2]
\* frames[i] and frames[min(i + 1, n - 1)], frames counted from 0
ProbeFrame(i) == probe.clip.frames[i + 1]
ProbeNext(i) ==
    probe.clip.frames[IF i + 2 <= Len(probe.clip.frames) THEN i + 2 ELSE i + 1]
Midpoint(f, g) ==
    Frame(RDiv(RAdd(f[1], g[1]), FromInt(2)), RDiv(RAdd(f[2], g[2]), FromInt(2)))

\* C22 as stated, x = t * r being the product of the reals: sample(t) is none
\* exactly when floor(x) >= n, so sample(length) is none, and otherwise it is
\* frames[i] + (frames[min(i + 1, n - 1)] - frames[i]) * (x - i) per channel.
C22_SampleExact ==
    probe.called =>
        LET n == Len(probe.clip.frames)
            i == Floor(ProbeXReal)
            f == RSub(ProbeXReal, FromInt(Floor(ProbeXReal)))
        IN  /\ probe.out.ok <=> i < n
            /\ probe.t = AudioClip_length(probe.clip) => ~probe.out.ok
            /\ probe.out.ok =>
                  \A ch \in 1..2 :
                     probe.out.frame[ch] =
                        RAdd(ProbeFrame(i)[ch],
                             RMul(RSub(ProbeNext(i)[ch], ProbeFrame(i)[ch]), f))

\* C22, amended: with x the f32 product of t and r, i = floor(x), f = x - i,
\* sample(t) is none exactly when i >= n, and otherwise frames[i] +
\* (frames[min(i + 1, n - 1)] - frames[i]) * f per channel, each operation
\* rounded to f32.  An empty clip yields none; t * r >= n yields none; the last
\* frame interpolates against itself.  When the product t * r is exact,
\* sample(i / r) = frames[i] and sample((i + 0.5) / r) is the midpoint of
\* frames[i] and frames[i + 1]; sample(length) is none when length * r = n in
\* f32, as for a rate that is a power of two.
C22_Sample ==
    probe.called =>
        LET n == Len(probe.clip.frames)
            i == Floor(ProbeX)
            f == F32(RSub(ProbeX, FromInt(Floor(ProbeX))))
        IN  /\ probe.out.ok <=> i < n
            /\ n = 0 => ~probe.out.ok
            /\ ~RLt(ProbeXReal, FromInt(n)) => ~probe.out.ok
            /\ (/\ probe.t = AudioClip_length(probe.clip)
                /\ IsPow2(probe.clip.sample_rate)) => ~probe.out.ok
            /\ probe.out.ok =>
                  /\ \A ch \in 1..2 :
                        probe.out.frame[ch] =
                           F32(RAdd(ProbeFrame(i)[ch],
                                    F32(RMul(F32(RSub(ProbeNext(i)[ch],
                                                      ProbeFrame(i)[ch])), f))))
                  /\ i = n - 1 => probe.out.frame = ProbeFrame(i)
                  /\ (ProbeX = ProbeXReal /\ f = Zero)
                        => probe.out.frame = ProbeFrame(i)
                  /\ (ProbeX = ProbeXReal /\ f = Half /\ i + 1 < n)
                        => probe.out.frame = Midpoint(ProbeFrame(i),
                                                      ProbeFrame(i + 1))

\* sample(length) of the clip of 13 frames at rate 11 is the last frame:
\* 13 / 11 rounds down in f32 and its product with 11 rounds to less than 13.
C22_LengthSampled ==
    /\ probe.called
    /\ probe.clip = ClipOf(13, 11)
    /\ probe.t = AudioClip_length(probe.clip)
    /\ RLt(ProbeX, FromInt(13))
    /\ probe.out = Some(probe.clip.frames[13])

\* C23 as stated: on every backend each callback invocation that has returned
\* has pushed exactly one latency sample, so between callbacks the recorder has
\* received as many samples as there were callbacks.
C23_OnePushPerCallback == pc = "idle" => Len(pushed) = callbacks

\* C24 as stated: after a start the platform refused, new() and start() have
\* returned an error on each backend of the crate; setup has been called once
\* before any start, no start follows a failed setup, and a manager exists only
\* when both returned Ok.
C24_StartFailureReported ==
    /\ (backend # "custom" /\ manager.refused) => manager.result = "Err"
    /\ manager.starts >= 1 => manager.setups = 1
    /\ manager.at = "failed" => manager.result = "Err" /\ manager.starts <= 1
    /\ (manager.at = "built" /\ manager.starts = 1)
          => manager.result = "Ok" /\ manager.setups = 1
    /\ manager.at \in {"new", "setup", "failed"} => callbacks = 0

\* C25 as stated: for every input and every factor > 0 the iteration yields at
\* least one window of W samples, ends (no call returns a window and leaves
\* the Stretcher as it found it, and once a call has returned None every
\* window has been yielded), and neither indexes out of range nor underflows.
C25_StretcherEnds ==
    stretcher.made =>
        /\ ~stretcher.panicked
        /\ ~stretcher.underflowed
        /\ ~stretcher.stuck
        /\ stretcher.window \in {0, WindowLen}
        /\ stretcher.nones > 0 => stretcher.done /\ stretcher.yielded >= 1
        /\ stretcher.done => stretcher.yielded >= 1

\* The number of windows of an input of n samples dropped s at a time: the
\* turn of the loop that first finds fewer than W samples is turn
\* floor((n - W) / s) + 2 (turn 1 when n < W), and a window takes two turns.
Windows(n, s) ==
    IF n < WindowLen THEN 1 ELSE ((n - WindowLen) \div s + 3) \div 2
Diff(a, b) == IF a < b THEN b - a ELSE a - b
StretchEnded ==
    /\ stretcher.made
    /\ stretcher.done
    /\ ~stretcher.panicked

\* C26 as stated: when the iteration ends, the total length of the windows
\* differs from input.len() * factor by at most W.
C26_TotalNearInputTimesFactor ==
    StretchEnded =>
        ~RLt(FromInt(WindowLen),
             IF RLt(FromInt(stretcher.yielded * WindowLen),
                    RMul(FromInt(stretcher.given), stretcher.factor))
             THEN RSub(RMul(FromInt(stretcher.given), stretcher.factor),
                       FromInt(stretcher.yielded * WindowLen))
             ELSE RSub(FromInt(stretcher.yielded * WindowLen),
                       RMul(FromInt(stretcher.given), stretcher.factor)))

\* C26, amended: when the iteration ends without an underflow, the number of
\* windows is 1 for an input shorter than W and
\* ceil((floor((n - W) / s) + 2) / 2) otherwise, s = sample_step_len >= 1; the
\* total length is then within half a window of W + (n - W) * W / (2 s) for
\* n >= W, and within one window of n * factor when the factor is 1.
C26_Total ==
    (StretchEnded /\ ~stretcher.underflowed) =>
        /\ stretcher.sample_step_len >= 1 \/ stretcher.given < WindowLen
        /\ stretcher.yielded =
              Windows(stretcher.given, stretcher.sample_step_len)
        /\ stretcher.given >= WindowLen =>
              Diff(2 * stretcher.sample_step_len * stretcher.yielded * WindowLen,
                   (stretcher.given - WindowLen) * WindowLen
                      + 2 * stretcher.sample_step_len * WindowLen)
                 <= stretcher.sample_step_len * WindowLen
        /\ stretcher.factor = One =>
              Diff(stretcher.yielded * WindowLen, stretcher.given) <= WindowLen

\* Ten windows of input at factor 4 have ended after 37 windows, three short
\* of the forty that input.len() * factor makes.
C26_FactorFour ==
    /\ StretchEnded
    /\ stretcher.given = 10 * WindowLen
    /\ stretcher.factor = FromInt(4)
    /\ stretcher.sample_step_len = 1024
    /\ stretcher.yielded = 37
    /\ stretcher.nones = 1

\* index * delta at the rate of the renderer's last callback
LoopPosition ==
    RDiv(RMul(FromInt(renderer[1].index), renderer[1].playback_rate),
         FromInt(renderer[1].last_sample_rate))

\* C27 as stated: between callbacks, once the renderer has been called and
\* while the handle exists, Music.position() is index * delta for the
\* renderer's index, whether the renderer is paused or not.
C27_PositionPublished ==
    (pc = "idle" /\ callbacks >= 1 /\ arc[1] = 1 /\ renderers = <<1>>)
        => Music_position(1) = LoopPosition

\* The renderer of source 1 as prepare leaves it in this callback.
LoopPrepared == MusicRenderer_prepare(Music_of(1), sample_rate)
\* The buffer d with the filtered frame f added at frame k.
LoopAdded(d, f, k) ==
    IF channels = 2
    THEN [d EXCEPT ![2 * k - 1] = RAdd(@, f[1]), ![2 * k] = RAdd(@, f[2])]
    ELSE [d EXCEPT ![k] = RAdd(@, Frame_avg(f))]
\* The frames of a callback from frame k on when every frame is taken at
\* index * delta for the index the renderer then has.
RECURSIVE LoopByIndex(_, _, _, _)
LoopByIndex(m, d, delta, k) ==
    IF k > (IF channels = 2 THEN Len(d) \div 2 ELSE Len(d))
    THEN [m |-> m, data |-> d]
    ELSE IF ~MusicRenderer_frame(m, MusicRenderer_position(m, delta), delta).out.ok
    THEN [m |-> MusicRenderer_frame(m, MusicRenderer_position(m, delta), delta).m,
          data |-> d]
    ELSE LoopByIndex(
            MusicRenderer_update_and_get(
                MusicRenderer_frame(m, MusicRenderer_position(m, delta), delta).m,
                MusicRenderer_frame(m, MusicRenderer_position(m, delta), delta).out.frame),
            LoopAdded(d,
                MusicRenderer_update_and_get(
                    MusicRenderer_frame(m, MusicRenderer_position(m, delta), delta).m,
                    MusicRenderer_frame(m, MusicRenderer_position(m, delta), delta).out.frame).last_output,
                k),
            delta, k + 1)

\* C28 as stated: a render step of a playing source takes every frame at
\* index * delta for the renderer's current index, the frames after a loop
\* wrap in the same callback included, and leaves the index after the last
\* position emitted.
C28_SampledAtIndex ==
    [][(Rendering /\ pc' = "alive" /\ ~LoopPrepared.paused)
       => /\ data' = LoopByIndex(LoopPrepared, data,
                                 Music_delta(LoopPrepared, sample_rate), 1).data
          /\ renderer'[1].index =
                LoopByIndex(LoopPrepared, data,
                            Music_delta(LoopPrepared, sample_rate), 1).m.index]_vars

(***************************************************************************)
(* What a render step of the looping source is compared with, read in the  *)
(* state before the step.  Frame k is taken at the loop's own position,    *)
(* (index + k - 1) * delta; past the end of the clip it is a wrap frame.   *)
(***************************************************************************)
WrapDelta == Music_delta(LoopPrepared, sample_rate)
WrapAt(k) == RMul(FromInt(LoopPrepared.index + k - 1), WrapDelta)
IsWrap(k) == ~AudioClip_sample(LoopPrepared.clip, WrapAt(k)).ok
\* position - length + loop_mix_time
WrappedTo(k) ==
    RAdd(RSub(WrapAt(k), AudioClip_length(LoopPrepared.clip)),
         LoopPrepared.loop_mix_time)
ClipAt(t) ==
    IF AudioClip_sample(LoopPrepared.clip, t).ok
    THEN AudioClip_sample(LoopPrepared.clip, t).frame
    ELSE FrameDefault
\* The tail of the clip mixed onto its head: sample(position + mix - length)
CrossMix(k) ==
    IF RLe(Zero, RSub(RAdd(WrapAt(k), LoopPrepared.loop_mix_time),
                      AudioClip_length(LoopPrepared.clip)))
    THEN ClipAt(RSub(RAdd(WrapAt(k), LoopPrepared.loop_mix_time),
                      AudioClip_length(LoopPrepared.clip)))
    ELSE FrameDefault
\* Frame k before the low-pass: the clip at the wrapped position times the
\* amplifier at a wrap, the clip and the cross-mix times the amplifier
\* otherwise (no fade under way).
Unfiltered(k) ==
    IF IsWrap(k) THEN Frame_mul(ClipAt(WrappedTo(k)), LoopPrepared.amplifier)
    ELSE Frame_mul(Frame_add(ClipAt(WrapAt(k)), CrossMix(k)),
                   LoopPrepared.amplifier)
LowPass(prev, f) ==
    Frame_add(Frame_mul(prev, LoopPrepared.low_pass),
              Frame_mul(f, RSub(One, LoopPrepared.low_pass)))
\* The low-pass state after frame n when every frame from k on goes through
\* the filter, prev being the state after frame k - 1
RECURSIVE FilteredFrom(_, _, _)
FilteredFrom(prev, k, n) ==
    IF k > n THEN prev
    ELSE CHOOSE r \in {FilteredFrom(next, k + 1, n) :
                          next \in {LowPass(prev, Unfiltered(k))}} : TRUE
Filtered(n) == FilteredFrom(LoopPrepared.last_output, 1, n)
\* The same when the wrap frames go round the filter
RECURSIVE FilteredBypassFrom(_, _, _)
FilteredBypassFrom(prev, k, n) ==
    IF k > n THEN prev
    ELSE CHOOSE r \in {FilteredBypassFrom(next, k + 1, n) :
                          next \in {IF IsWrap(k) THEN prev
                                     ELSE LowPass(prev, Unfiltered(k))}} : TRUE
FilteredBypass(n) == FilteredBypassFrom(LoopPrepared.last_output, 1, n)
EmittedBypass(k) == IF IsWrap(k) THEN Unfiltered(k) ELSE FilteredBypass(k)
\* A render step of the playing looping source in which no fade acts on a
\* frame taken from the clip directly: no fade is under way, or the first
\* frame is a wrap frame already (and so is every later one).
WrapStep ==
    /\ Rendering
    /\ pc' = "alive"
    /\ ~LoopPrepared.paused
    /\ RLe(Zero, LoopPrepared.loop_mix_time)
    /\ PlayFrames >= 1
    /\ LoopPrepared.fade_time = 0 \/ IsWrap(1)
WrapIndex ==
    IF IsWrap(PlayFrames)
    THEN RoundAsUsize(RDiv(WrappedTo(PlayFrames), WrapDelta))
    ELSE LoopPrepared.index + PlayFrames

\* C29 as stated: the frame emitted at a wrap is the clip at the wrapped
\* position times the amplifier, with no fade and no low-pass, and it leaves
\* the low-pass state as it was.
C29_WrapBypassesLowPass ==
    [][WrapStep
       => /\ data' = [j \in 1..Len(data) |->
                         IF FrameOf(j) <= PlayFrames
                         THEN RAdd(data[j], Channel(EmittedBypass(FrameOf(j)), j))
                         ELSE data[j]]
          /\ renderer'[1].last_output = FilteredBypass(PlayFrames)
          /\ renderer'[1].fade_time = LoopPrepared.fade_time
          /\ renderer'[1].fade_current = LoopPrepared.fade_current]_vars

\* C29, amended: the frame emitted at a wrap is the clip at the wrapped
\* position (a zero frame when the clip has none there) times the amplifier,
\* with no cross-mix and no fade step (fade_time and fade_current stay as they
\* are); it then goes through the one-pole low-pass like every other frame,
\* which it updates; the index is left at round(wrapped position / delta).
C29_WrapFrame ==
    [][WrapStep
       => /\ data' = [j \in 1..Len(data) |->
                         IF FrameOf(j) <= PlayFrames
                         THEN RAdd(data[j], Channel(Filtered(FrameOf(j)), j))
                         ELSE data[j]]
          /\ renderer'[1].last_output = Filtered(PlayFrames)
          /\ renderer'[1].fade_time = LoopPrepared.fade_time
          /\ renderer'[1].fade_current = LoopPrepared.fade_current
          /\ renderer'[1].index = WrapIndex]_vars

\* A first callback of six mono frames at 2 Hz over the four-frame clip with
\* the low-pass at 1/2 and a mix time of half a second: frames 5 and 6 are
\* wrap frames, and both went through the filter.
C29_WrapFiltered ==
    /\ pc = "alive"
    /\ channels = 1
    /\ sample_rate = 2
    /\ callbacks = 1
    /\ renderer[1].low_pass = Half
    /\ renderer[1].loop_mix_time = Half
    /\ renderer[1].index = 2
    /\ data = <<Q(1, 8), Q(3, 16), Q(-1, 32), Q(-1, 64), Q(15, 128),
                Q(-17, 256)>>
    /\ renderer[1].last_output = Frame(Q(-27, 128), Q(5, 64))

\* A render step of the looping source that finds it playing once the
\* commands are applied.
PlayingStep ==
    /\ Rendering
    /\ pc' = "alive"
    /\ ~LoopPrepared.paused
    /\ RLe(Zero, LoopPrepared.loop_mix_time)
\* A Pause command is among the commands the step applies.
PauseApplied ==
    \E i \in (Len(Music_of(1).applied) + 1)..Len(LoopPrepared.applied) :
        LoopPrepared.applied[i].op = "Pause"
\* The step ends a fade-out: fade_current has come down to fade_time.
FadeOutCompleted ==
    /\ ~LoopPrepared.paused
    /\ LoopPrepared.fade_time < 0
    /\ renderer'[1].fade_time = 0
    /\ renderer'[1].fade_current <= LoopPrepared.fade_time

\* C30: with loop_mix_time >= 0 the source goes from playing to paused only
\* in a callback that applies a Pause command or completes a fade-out, never
\* because the clip ran out; a callback that leaves it playing has run through
\* every frame of the buffer (the index is that of the last frame).
C30_NeverRunsOut ==
    [][/\ (~renderer[1].paused /\ renderer'[1].paused)
            => /\ Rendering
               /\ pc' = "alive"
               /\ (LoopPrepared.paused /\ PauseApplied) \/ FadeOutCompleted
       /\ (PlayingStep /\ PlayFrames >= 1 /\ ~renderer'[1].paused)
            => renderer'[1].index = WrapIndex
       /\ (PlayingStep /\ renderer'[1].paused) => FadeOutCompleted]_vars

\* A first callback of six mono frames at 2 Hz over the four-frame clip with a
\* mix time of zero: the clip runs out after four frames, frames 5 and 6 are
\* taken from its head, and the source is still playing.
C30_LoopedPlaying ==
    /\ pc = "alive"
    /\ channels = 1
    /\ sample_rate = 2
    /\ callbacks = 1
    /\ renderer[1].loop_mix_time = Zero
    /\ ~renderer[1].paused
    /\ ~state[1].paused
    /\ renderer[1].index = 1
    /\ data = <<Q(1, 4), Q(1, 4), Q(-1, 4), Q(-1, 4), Q(1, 4), Q(1, 4)>>

\* A Resume or a FadeIn, or a SeekTo, is among the commands the render step
\* applies.
StartApplied ==
    \E i \in 1..Len(LoopPrepared.applied) :
        LoopPrepared.applied[i].op \in {"Resume", "FadeIn"}
SeekApplied ==
    \E i \in 1..Len(LoopPrepared.applied) :
        LoopPrepared.applied[i].op = "SeekTo"
RenderStep == Rendering /\ pc' = "alive"
Created ==
    /\ renderer[1].paused
    /\ Music_paused(1)
    /\ Music_position(1) = Zero
    /\ renderer[1].index = 0

\* C31 as stated: a new source is paused, paused() is true and position() is
\* 0, and as long as it is paused and paused() is true every step that applies
\* no Resume and no FadeIn leaves it paused and leaves the shared state, the buffer (in a
\* render step) and the frame index as they are.
C31_UntouchedUntilStarted ==
    /\ Created
    /\ [][(renderer[1].paused /\ Music_paused(1)
            /\ ~(RenderStep /\ StartApplied))
            => /\ renderer'[1].paused
               /\ state'[1] = state[1]
               /\ RenderStep => data' = data
               /\ renderer'[1].index = renderer[1].index]_vars

\* C31, amended: a new source is paused, paused() is true and position() is
\* 0, and as long as it is paused and paused() is true every step that applies
\* no Resume and no FadeIn leaves it paused and leaves the shared state and the buffer (in a
\* render step) as they are; the frame index stays as it is unless the step
\* applies a SeekTo or rescales a non-zero index to a new sample rate.
C31_StartsPaused ==
    /\ Created
    /\ [][(renderer[1].paused /\ Music_paused(1)
            /\ ~(RenderStep /\ StartApplied))
            => /\ renderer'[1].paused
               /\ state'[1] = state[1]
               /\ RenderStep => data' = data
               /\ (~(RenderStep /\ SeekApplied)
                   /\ (renderer[1].index = 0
                       \/ renderer[1].last_sample_rate = sample_rate))
                    => renderer'[1].index = renderer[1].index]_vars

\* A first callback found a SeekTo(1) and nothing else queued: the source is
\* still paused, the buffer holds zeros, position() is 0, the index is 2.
C31_SoughtWhilePaused ==
    /\ pc = "alive"
    /\ callbacks = 1
    /\ sample_rate = 2
    /\ applied[1] = <<Cmd("SeekTo", One)>>
    /\ renderer[1].paused
    /\ Music_paused(1)
    /\ Music_position(1) = Zero
    /\ Len(data) = MaxCreatedData
    /\ \A i \in 1..Len(data) : data[i] = Zero
    /\ renderer[1].index = 2

\* What a render step of the sfx source is compared with, read in the state
\* before the step: whether the clip has a sample for entry e at frame j + 1
\* of the buffer, and whether it has one at every frame.
SfxDelta == Q(1, sample_rate)
SfxHas(e, j) ==
    AudioClip_sample(renderer[1].clip,
                     RAdd(e.position, RMul(FromInt(j), SfxDelta))).ok
SfxPlays(e) == \A j \in 0..(PlayFrames - 1) : SfxHas(e, j)
SfxKept(e) ==
    [e EXCEPT !.position = RAdd(@, RMul(FromInt(PlayFrames), SfxDelta))]

\* C32: a render step removes the n oldest entries, each of which met a frame
\* for which the clip has no sample, and keeps every other entry, advanced by
\* the frames of the buffer (so an entry whose last clip frame fell on the
\* last frame of the buffer stays, at the clip end); when the buffer has a
\* frame and no entry has a sample left, the queue is emptied and the buffer
\* is left as it was; a non-empty queue keeps the renderer in the mixer's
\* list at the liveness check, which then does not ask for the handle.
C32_SfxRemovedWhenNone ==
    [][/\ (Rendering /\ pc' = "alive")
            => /\ \E n \in 0..Len(cons[1]) :
                     /\ Len(cons'[1]) = Len(cons[1]) - n
                     /\ \A i \in 1..n : ~SfxPlays(cons[1][i])
                     /\ \A i \in (n + 1)..Len(cons[1]) :
                            /\ SfxPlays(cons[1][i])
                            /\ cons'[1][i - n] = SfxKept(cons[1][i])
               /\ (PlayFrames >= 1
                   /\ \A i \in 1..Len(cons[1]) : ~SfxHas(cons[1][i], 0))
                    => cons'[1] = <<>> /\ data' = data
       /\ (pc = "alive" /\ cons[1] # <<>>)
            => /\ renderers' = renderers
               /\ removed' = removed
               /\ pc' # "alive_marker"]_vars

\* The handle played once and was dropped, and a callback of two mono frames
\* at 1 Hz rendered the two-frame clip: the entry is still queued, at the clip
\* end, and the renderer is still listed.
C32_QueuedAtClipEnd ==
    /\ pc = "idle"
    /\ callbacks = 1
    /\ sample_rate = 1
    /\ channels = 1
    /\ arc[1] = 0
    /\ renderers = <<1>>
    /\ 1 \notin removed
    /\ data = <<Half, Half>>
    /\ cons[1] = <<Entry(AudioClip_length(renderer[1].clip), One)>>
    /\ ~AudioClip_sample(renderer[1].clip, cons[1][1].position).ok

\* C33: recover_if_needed() enters start() only with the flag set, and has
\* cleared it when it does; a start() that fails returns the error and leaves
\* the flag as it is; with the flag not set since the last call that cleared
\* it (a consume_broken() that returned true, or a recover_if_needed() whose
\* start() failed), recover_if_needed() returns Ok without entering start().
C33_ClearedBeforeStart ==
    [][/\ (AudioManager_recover_if_needed /\ start_pc'.at = "entered")
            => /\ broken
               /\ ~broken'
               /\ ~signalled'
               /\ start_pc'.by = "recover_if_needed"
       /\ (start_pc.at = "entered" /\ start_pc' = NoStart)
            => /\ ~ret'.ok
               /\ broken' = broken
               /\ signalled' = signalled
               /\ starts' = starts
               /\ live' = live
       /\ (AudioManager_recover_if_needed /\ ~signalled)
            => /\ start_pc' = start_pc
               /\ starts' = starts
               /\ ret'.ok
               /\ ~broken'
       /\ (AudioManager_consume_broken /\ ret'.value)
            => ~broken' /\ ~signalled']_vars

\* recover_if_needed() found the flag set and is inside start(), which has
\* not yet failed or succeeded: the flag is already cleared.
C33_InsideStartFlagCleared ==
    /\ start_pc.at = "entered"
    /\ start_pc.by = "recover_if_needed"
    /\ ~broken
    /\ ~signalled
    /\ starts = 2
    /\ live = {1}

====
